---- MODULE Spec2Model ----
(***************************************************************************)
(* Snake arena: the room lifecycle (room.rs), the tick loop that drives a  *)
(* Playing room (room.rs, run) and the grid engine it steps (game.rs).     *)
(***************************************************************************)
EXTENDS Integers, Sequences, FiniteSets, TLC

(***************************************************************************)
(* Bounds of the model.                                                    *)
(***************************************************************************)
\* how many Maps Room.history may hold: with that many the sessions fall silent
\* and the tick loops step no more
MaxHistory == 2
\* the peer addresses of the connections, and the display name each one sends
Addrs == {"a1", "a2"}
NameOf == [a \in Addrs |-> IF a = "a1" THEN "ann" ELSE "bob"]
\* the tick loops that can be alive at once (a cancelled one and its successor)
Games == {1, 2}

(***************************************************************************)
(* game.rs: directions, tiles, snakes                                      *)
(***************************************************************************)
Direction == {"North", "East", "South", "West"}

right(d) ==
    CASE d = "North" -> "East"
      [] d = "East"  -> "South"
      [] d = "South" -> "West"
      [] d = "West"  -> "North"

\* a left that turns the snake about
left_about(d) ==
    CASE d = "North" -> "South"
      [] d = "West"  -> "East"
      [] d = "South" -> "North"
      [] d = "East"  -> "West"

left(d) ==
    CASE d = "North" -> "West"
      [] d = "West"  -> "South"
      [] d = "South" -> "East"
      [] d = "East"  -> "North"

\* DIRECTIONS[rng.gen_range(0, 3)]: the upper end of gen_range is exclusive
DIRECTIONS == <<"North", "West", "South", "East">>
\* a draw over all four directions
sample_all_four == {DIRECTIONS[i + 1] : i \in 0..3}

sample == {DIRECTIONS[i + 1] : i \in 0..2}

Blank == [type |-> "Blank"]
Wall == [type |-> "Wall"]
Doodah == [type |-> "Doodah"]
SnakeHead(id, dir) == [type |-> "SnakeHead", id |-> id, dir |-> dir]
SnakeBody(id, index) == [type |-> "SnakeBody", id |-> id, index |-> index]

Snake_new(dir, head) == [dir |-> dir, head |-> head, body |-> <<>>]

score(snake) == Len(snake.body)

\* a head position that wraps both coordinates by the height
next_head_pos_by_height(snake, dims) ==
    LET x == snake.head[1]
        y == snake.head[2]
        height == dims.height
    IN CASE snake.dir = "North" -> <<x, (y + 1) % height>>
         [] snake.dir = "South" -> <<x, (y + height - 1) % height>>
         [] snake.dir = "East"  -> <<(x + 1) % height, y>>
         [] snake.dir = "West"  -> <<(x + height - 1) % height, y>>

next_head_pos(snake, dims) ==
    LET x == snake.head[1]
        y == snake.head[2]
        width == dims.width
        height == dims.height
    IN CASE snake.dir = "North" -> <<x, (y + 1) % height>>
         [] snake.dir = "South" -> <<x, (y + height - 1) % height>>
         [] snake.dir = "East"  -> <<(x + 1) % width, y>>
         [] snake.dir = "West"  -> <<(x + width - 1) % width, y>>

\* a step that leaves the end of the tail where it is
Snake_step_keeps_tail(snake, dims) ==
    [snake EXCEPT !.body = Append(snake.body, snake.head),
                  !.head = next_head_pos(snake, dims)]

\* push_back(head); head = next; pop_front()
Snake_step(snake, dims) ==
    [snake EXCEPT !.body = Tail(Append(snake.body, snake.head)),
                  !.head = next_head_pos(snake, dims)]

grow(snake, dims) ==
    [snake EXCEPT !.body = Append(snake.body, snake.head),
                  !.head = next_head_pos(snake, dims)]

\* a test that only finds a head on a head
has_collided_heads_only(snake, other) == snake.head = other.head

has_collided(snake, other) ==
    \/ snake.head = other.head
    \/ \E i \in 1..Len(other.body) : other.body[i] = snake.head

\* a test that never finds a snake on itself
has_self_collided_never(snake) == FALSE

has_self_collided(snake) ==
    \E i \in 1..Len(snake.body) : snake.body[i] = snake.head

(***************************************************************************)
(* game.rs: Map.  snakes and scores are HashMaps: functions whose domain   *)
(* is the set of keys.                                                     *)
(***************************************************************************)
HRemove(f, k) == [x \in DOMAIN f \ {k} |-> f[x]]
HInsert(f, k, v) == [x \in DOMAIN f \cup {k} |-> IF x = k THEN v ELSE f[x]]
Empty == [x \in {} |-> 0]

to_index(map, pos) == pos[1] + pos[2] * map.dims.width

BlankIndices(tiles) == {i \in DOMAIN tiles : tiles[i] = Blank}

\* every order in which a HashMap with these keys may be iterated
Orders(keys) ==
    {o \in [1..Cardinality(keys) -> keys] :
        \A i, j \in 1..Cardinality(keys) : i # j => o[i] # o[j]}

\* a cleanup that takes only the heads off the board
cleanup_board_heads_only(tiles) ==
    [i \in DOMAIN tiles |->
        IF tiles[i].type = "SnakeHead" THEN Blank ELSE tiles[i]]

cleanup_board(tiles) ==
    [i \in DOMAIN tiles |->
        IF tiles[i].type \in {"SnakeBody", "SnakeHead"} THEN Blank ELSE tiles[i]]

\* the tiles after painting snake `id`: its head first, then its body in order
PaintSnake(map, tiles, id) ==
    LET snake == map.snakes[id]
        parts == {k \in 1..Len(snake.body) : TRUE}
        \* a later body part overwrites an earlier one on the same cell
        LastPart(i) ==
            CHOOSE k \in parts :
                /\ to_index(map, snake.body[k]) = i
                /\ \A l \in parts : to_index(map, snake.body[l]) = i => l <= k
    IN [i \in DOMAIN tiles |->
          IF \E k \in parts : to_index(map, snake.body[k]) = i
            THEN SnakeBody(id, LastPart(i) - 1)
          ELSE IF to_index(map, snake.head) = i
            THEN SnakeHead(id, snake.dir)
          ELSE tiles[i]]

RECURSIVE PaintInOrder(_, _, _)
PaintInOrder(map, tiles, order) ==
    IF order = <<>> THEN tiles
    ELSE PaintInOrder(map, PaintSnake(map, tiles, Head(order)), Tail(order))

\* the boards place_snakes can produce, one per iteration order of the snakes
place_snakes(map) ==
    {[map EXCEPT !.tiles = PaintInOrder(map, map.tiles, o)] :
        o \in Orders(DOMAIN map.snakes)}

\* the boards place_doodah can produce: a Doodah on any Blank tile, if one exists
place_doodah(map) ==
    IF BlankIndices(map.tiles) = {} THEN {map}
    ELSE {[map EXCEPT !.tiles[idx] = Doodah] : idx \in BlankIndices(map.tiles)}

\* scores that are left as they were
update_scores_stale(map) == map

update_scores(map) ==
    [map EXCEPT !.scores =
        [id \in DOMAIN map.scores \cup DOMAIN map.snakes |->
            IF id \in DOMAIN map.snakes THEN score(map.snakes[id])
            ELSE map.scores[id]]]

turn_left(map, id) ==
    IF id \in DOMAIN map.snakes
    THEN [map EXCEPT !.snakes[id].dir = left(map.snakes[id].dir)]
    ELSE map

turn_right(map, id) ==
    IF id \in DOMAIN map.snakes
    THEN [map EXCEPT !.snakes[id].dir = right(map.snakes[id].dir)]
    ELSE map

\* a delete that takes the score of the snake with it
delete_snake_with_score(map, id) ==
    IF id \in DOMAIN map.snakes
    THEN [map EXCEPT !.snakes = HRemove(map.snakes, id),
                     !.scores = HRemove(map.scores, id)]
    ELSE map

delete_snake(map, id) ==
    IF id \in DOMAIN map.snakes
    THEN [map EXCEPT !.snakes = HRemove(map.snakes, id)]
    ELSE map

\* a liveness test that takes every snake for alive
is_alive_any(map, id) == TRUE

is_alive(map, id) == id \in DOMAIN map.snakes

\* a first pass that lets a snake step onto a Wall instead of removing it
MovedSnakes_through_walls(map) ==
    LET target(id) == map.tiles[to_index(map, next_head_pos(map.snakes[id], map.dims))]
    IN [id \in DOMAIN map.snakes |->
          IF target(id).type = "Doodah" THEN grow(map.snakes[id], map.dims)
          ELSE Snake_step(map.snakes[id], map.dims)]

\* The first pass of move_snakes: the snakes that did not hit a Wall, moved.
\* The tile read is the one left by cleanup_board.
MovedSnakes(map) ==
    LET target(id) == map.tiles[to_index(map, next_head_pos(map.snakes[id], map.dims))]
        kept == {id \in DOMAIN map.snakes : target(id).type # "Wall"}
    IN [id \in kept |->
          IF target(id).type = "Doodah" THEN grow(map.snakes[id], map.dims)
          ELSE Snake_step(map.snakes[id], map.dims)]

\* a got_doodah that is set by every snake that moves, whatever tile it moves to
ClaimedDoodahs_any_head(map) ==
    {next_head_pos(map.snakes[id], map.dims) : id \in DOMAIN map.snakes}

\* got_doodah: the new head of a snake that grew, the last one iterated if several
ClaimedDoodahs(map) ==
    {next_head_pos(map.snakes[id], map.dims) : id \in
        {i \in DOMAIN map.snakes :
            map.tiles[to_index(map, next_head_pos(map.snakes[i], map.dims))].type = "Doodah"}}

\* a second pass in which a snake is only compared with itself and the snakes of
\* lower id, so that of two snakes on one cell the lower id stays
Survivors_lower_id_wins(snake_copy) ==
    LET alive == {id \in DOMAIN snake_copy :
                    ~ \E oid \in DOMAIN snake_copy :
                        IF id = oid THEN has_self_collided(snake_copy[id])
                        ELSE oid < id /\ has_collided(snake_copy[id], snake_copy[oid])}
    IN [id \in alive |-> snake_copy[id]]

\* The second pass of move_snakes: every snake of snake_copy is compared with
\* every snake of snake_copy, itself included.
Survivors(snake_copy) ==
    LET alive == {id \in DOMAIN snake_copy :
                    ~ \E oid \in DOMAIN snake_copy :
                        IF id = oid THEN has_self_collided(snake_copy[id])
                        ELSE has_collided(snake_copy[id], snake_copy[oid])}
    IN [id \in alive |-> snake_copy[id]]

\* a collision pass in which the snakes removed on a Wall still block their cells
move_snakes_walls_block(map) ==
    LET moved == MovedSnakes(map)
        gone == DOMAIN map.snakes \ DOMAIN moved
        kept == Survivors(moved)
        free == {id \in DOMAIN kept :
                    ~ \E oid \in gone : has_collided(kept[id], map.snakes[oid])}
    IN [map EXCEPT !.snakes = [id \in free |-> kept[id]]]

move_snakes(map) == [map EXCEPT !.snakes = Survivors(MovedSnakes(map))]

\* The results step can give: [ok |-> TRUE, map |-> m] or [ok |-> FALSE, scores |-> s]
Map_step(map0) ==
    LET cleaned == [map0 EXCEPT !.tiles = cleanup_board(map0.tiles)]
        claimed == ClaimedDoodahs(cleaned)
        moved == move_snakes(cleaned)
    IN IF DOMAIN moved.snakes = {}
       THEN {[ok |-> FALSE, scores |-> moved.scores]}
       ELSE LET placed == {update_scores(m) : m \in place_snakes(moved)}
            IN IF claimed = {}
               THEN {[ok |-> TRUE, map |-> m] : m \in placed}
               ELSE UNION {
                      LET idx == to_index(m, coord)
                          cleared == IF m.tiles[idx] = Doodah
                                     THEN [m EXCEPT !.tiles[idx] = Blank]
                                     ELSE m
                      IN {[ok |-> TRUE, map |-> d] : d \in place_doodah(cleared)}
                      : m \in placed, coord \in claimed}

\* The Maps Map::new can give for a template and a list of snake ids: zip pairs the
\* ids, in the order of the list, with as many randomly chosen Blank positions as
\* exist, so with fewer Blank tiles than ids only that many ids get a snake.
Map_new(width, height, tiles, ids) ==
    LET n == IF Cardinality(ids) <= Cardinality(BlankIndices(tiles))
             THEN Cardinality(ids) ELSE Cardinality(BlankIndices(tiles))
        pos(i) == <<i % width, i \div width>>
        seeded == {K \in SUBSET ids : Cardinality(K) = n}
        spots(K) == {f \in [K -> BlankIndices(tiles)] :
                        \A a, b \in K : a # b => f[a] # f[b]}
        base(snakes) == [dims |-> [width |-> width, height |-> height],
                         tiles |-> tiles,
                         scores |-> [id \in DOMAIN snakes |-> score(snakes[id])],
                         snakes |-> snakes]
    IN UNION { UNION { UNION { UNION { place_doodah(p) :
                 p \in place_snakes(base([id \in K |-> Snake_new(d[id], pos(f[id]))])) }
               : d \in [K -> sample] } : f \in spots(K) } : K \in seeded }

(***************************************************************************)
(* room.rs: the waiting list, the room and the tick loops of its games     *)
(***************************************************************************)
VARIABLES
    waiting,    \* WaitingList: address -> display name
    state,      \* Room.state: Waiting, Playing {map, addrs, breaker}, Finished {scores}
    players,    \* Room.players: address -> display name
    history,    \* Room.history
    timestep,   \* Room.timestep: TRUE for Some(duration), FALSE for None
    width,      \* Room.width
    height,     \* Room.height
    tiles,      \* Room.tiles, the template
    poisoned,   \* the Room mutex is poisoned: a thread panicked holding it
    maps,       \* game -> the Map behind the Arc<Mutex<Map>> that run created
    pc,         \* game -> where the task that run spawned stands
    sockets,    \* game -> the loop's sockets: snake id -> what the tick did with it
    lmap,       \* game -> the game whose Map the loop took from the room this tick
    breaker,    \* game -> the oneshot channel of the game
    ret,        \* what the step just taken returned, if it was a request
    room_mutex, \* the Mutex of the Room: the thread that holds its guard, or "free"
    map_mutex,  \* game -> the Mutex of its Map: the thread that holds its guard, or "free"
    thread,     \* thread -> the section of code it is in and the guards it has taken there
    last_msg    \* game -> the sessions of its loop: snake id -> the "state" of the message sent last

vars == <<waiting, state, players, history, timestep, width, height, tiles, poisoned,
          maps, pc, sockets, lmap, breaker, ret, room_mutex, map_mutex, thread, last_msg>>

room_cfg == <<timestep, width, height, tiles>>
loops == <<maps, pc, sockets, lmap, breaker, last_msg>>
locking == <<room_mutex, map_mutex, thread>>

\* the threads: the handlers of the administrative requests and the tasks of the games
Handlers == {"h1"}
Task(g) == IF g = 1 THEN "task1" ELSE "task2"
Threads == Handlers \cup {Task(g) : g \in Games}

\* a thread that is in no section of code that takes a lock
Idle == [sec |-> "idle", got |-> 0]

NoMap == [type |-> "NoMap"]
Waiting == [tag |-> "Waiting"]
Playing(map, addrs, brk) == [tag |-> "Playing", map |-> map, addrs |-> addrs, breaker |-> brk]
Finished(scores) == [tag |-> "Finished", scores |-> scores]

Result(op, ok, msg) == [op |-> op, ok |-> ok, msg |-> msg]
NoResult == Result("none", TRUE, "")

\* The room templates: create_simple of main.rs (a row of Wall over rows of Blank)
\* cut down to 2 x 2, and the same with a single Blank tile.
RoomTemplates ==
    { [width |-> 2, height |-> 2, tiles |-> [i \in 0..3 |-> IF i < 2 THEN Wall ELSE Blank]],
      [width |-> 2, height |-> 2, tiles |-> [i \in 0..3 |-> IF i < 3 THEN Wall ELSE Blank]] }

\* Room::new for a template and a timestep; the loops are not born
RoomNew(ts, t) ==
    /\ state = Waiting
    /\ players = Empty
    /\ history = <<>>
    /\ timestep = ts
    /\ width = t.width /\ height = t.height /\ tiles = t.tiles
    /\ poisoned = FALSE
    /\ maps = [g \in Games |-> NoMap]
    /\ pc = [g \in Games |-> "unborn"]
    /\ sockets = [g \in Games |-> Empty]
    /\ lmap = [g \in Games |-> 0]
    /\ breaker = [g \in Games |-> "none"]
    /\ ret = NoResult
    /\ room_mutex = "free"
    /\ map_mutex = [g \in Games |-> "free"]
    /\ last_msg = [g \in Games |-> Empty]
    /\ thread = [th \in Threads |-> Idle]

\* Room::new, WaitingList::new
Init ==
    /\ waiting = Empty
    /\ \E ts \in BOOLEAN, t \in RoomTemplates : RoomNew(ts, t)

(***************************************************************************)
(* WaitingList                                                             *)
(***************************************************************************)
\* WaitingList::insert, called by process_socket for a new connection
insert(addr, name) ==
    /\ waiting' = HInsert(waiting, addr, name)
    /\ ret' = NoResult
    /\ UNCHANGED <<state, players, history, room_cfg, poisoned, loops>>

\* subscribe that forgets to look at the state of the room
WaitingList_subscribe_any_state(data, addr, room_state, room_players) ==
    IF addr \in DOMAIN data
    THEN [waiting |-> HRemove(data, addr),
          players |-> HInsert(room_players, addr, data[addr]),
          ok |-> TRUE, msg |-> ""]
    ELSE [waiting |-> data, players |-> room_players,
          ok |-> FALSE, msg |-> "address not in wait queue"]

\* what WaitingList::subscribe leaves: [waiting, players, ok, msg]
WaitingList_subscribe(data, addr, room_state, room_players) ==
    IF addr \in DOMAIN data
    THEN IF room_state.tag = "Waiting"
         THEN [waiting |-> HRemove(data, addr),
               players |-> HInsert(room_players, addr, data[addr]),
               ok |-> TRUE, msg |-> ""]
         ELSE [waiting |-> HInsert(HRemove(data, addr), addr, data[addr]),
               players |-> room_players,
               ok |-> FALSE, msg |-> "provided room is already in progress"]
    ELSE [waiting |-> data, players |-> room_players,
          ok |-> FALSE, msg |-> "address not in wait queue"]

\* room_request, "subscribe"
subscribe(addr) ==
    /\ ~poisoned
    /\ LET r == WaitingList_subscribe(waiting, addr, state, players)
       IN /\ waiting' = r.waiting
          /\ players' = r.players
          /\ ret' = Result("subscribe", r.ok, r.msg)
    /\ UNCHANGED <<state, history, room_cfg, poisoned, loops>>

\* unsubscribe that drops the connection instead of handing it back
Room_unsubscribe_drop(room_players, addr, list) ==
    IF addr \in DOMAIN room_players
    THEN [players |-> HRemove(room_players, addr), waiting |-> list,
          ok |-> TRUE, msg |-> ""]
    ELSE [players |-> room_players, waiting |-> list,
          ok |-> FALSE, msg |-> "address not in room"]

\* what Room::unsubscribe leaves: [waiting, players, ok, msg]
Room_unsubscribe(room_players, addr, list) ==
    IF addr \in DOMAIN room_players
    THEN [players |-> HRemove(room_players, addr),
          waiting |-> HInsert(list, addr, room_players[addr]),
          ok |-> TRUE, msg |-> ""]
    ELSE [players |-> room_players, waiting |-> list,
          ok |-> FALSE, msg |-> "address not in room"]

\* room_request, "unsubscribe"
unsubscribe(addr) ==
    /\ ~poisoned
    /\ LET r == Room_unsubscribe(players, addr, waiting)
       IN /\ waiting' = r.waiting
          /\ players' = r.players
          /\ ret' = Result("unsubscribe", r.ok, r.msg)
    /\ UNCHANGED <<state, history, room_cfg, poisoned, loops>>

\* room_request, "kill": WaitingList::remove
remove(addr) ==
    /\ waiting' = HRemove(waiting, addr)
    /\ ret' = NoResult
    /\ UNCHANGED <<state, players, history, room_cfg, poisoned, loops>>

\* room_request, "kill_all": WaitingList::clear
clear ==
    /\ waiting' = Empty
    /\ ret' = NoResult
    /\ UNCHANGED <<state, players, history, room_cfg, poisoned, loops>>

\* A Map lives as long as an Arc points to it: the one in the Playing state of the
\* room, or the clone a loop holds during a tick.
Live(ms, room_state, at, held) ==
    [g \in Games |->
        IF \/ room_state.tag = "Playing" /\ room_state.map = g
           \/ \E h \in Games : at[h] = "collect" /\ held[h] = g
        THEN ms[g] ELSE NoMap]

(***************************************************************************)
(* Room::reset                                                             *)
(***************************************************************************)
\* reset that keeps the roster
Room_reset_keep_players(room_players, old_state, brk) ==
    LET sent == old_state.tag = "Playing" /\ brk[old_state.breaker] = "open"
    IN [players |-> room_players,
        state |-> Waiting,
        breaker |-> IF sent THEN [brk EXCEPT ![old_state.breaker] = "sent"] ELSE brk,
        ok |-> TRUE, msg |-> ""]

\* reset that does nothing to a room that is not Playing
Room_reset_noop(room_players, old_state, brk) ==
    LET sent == old_state.tag = "Playing" /\ brk[old_state.breaker] = "open"
    IN [players |-> IF old_state.tag = "Playing" THEN Empty ELSE room_players,
        state |-> IF old_state.tag = "Playing" THEN Waiting ELSE old_state,
        breaker |-> IF sent THEN [brk EXCEPT ![old_state.breaker] = "sent"] ELSE brk,
        ok |-> TRUE, msg |-> ""]

\* what Room::reset leaves: [players, state, breaker, ok, msg]
Room_reset(room_players, old_state, brk) ==
    LET sent == old_state.tag = "Playing" /\ brk[old_state.breaker] = "open"
    IN [players |-> Empty,
        state |-> Waiting,
        breaker |-> IF sent THEN [brk EXCEPT ![old_state.breaker] = "sent"] ELSE brk,
        ok |-> old_state.tag # "Playing" \/ sent,
        msg |-> IF old_state.tag # "Playing" \/ sent THEN ""
                ELSE "failed to send reset signal"]

\* a reset that also empties the history
reset_clears_history ==
    /\ ~poisoned
    /\ LET r == Room_reset(players, state, breaker)
       IN /\ players' = r.players
          /\ state' = r.state
          /\ breaker' = r.breaker
          /\ ret' = Result("reset_room", r.ok, r.msg)
          /\ maps' = Live(maps, r.state, pc, lmap)
    /\ history' = <<>>
    /\ UNCHANGED <<waiting, room_cfg, poisoned, pc, sockets, lmap, last_msg>>

\* room_request, "reset_room"
reset ==
    /\ ~poisoned
    /\ LET r == Room_reset(players, state, breaker)
       IN /\ players' = r.players
          /\ state' = r.state
          /\ breaker' = r.breaker
          /\ ret' = Result("reset_room", r.ok, r.msg)
          /\ maps' = Live(maps, r.state, pc, lmap)
    /\ UNCHANGED <<waiting, history, room_cfg, poisoned, pc, sockets, lmap, last_msg>>

(***************************************************************************)
(* run: start a game and spawn its tick loop                               *)
(***************************************************************************)
Range(f) == {f[x] : x \in DOMAIN f}

\* players.drain().enumerate(): the ids 0..n-1 in the order the HashMap is drained
IdAssignments(addrs) ==
    {f \in [addrs -> 0..(Cardinality(addrs) - 1)] :
        \A a, b \in addrs : a # b => f[a] # f[b]}

\* the check of run without the look at the roster
good_any_roster(room_state, room_players) == room_state.tag = "Waiting"

\* "make sure the room is in a good state"
good(room_state, room_players) ==
    IF room_state.tag = "Waiting" THEN DOMAIN room_players # {} ELSE FALSE

\* the task is over: its sockets and the receiving end of its breaker are dropped
TaskEnds(g, how) ==
    /\ pc' = [pc EXCEPT ![g] = how]
    /\ sockets' = [sockets EXCEPT ![g] = Empty]
    /\ lmap' = [lmap EXCEPT ![g] = 0]
    /\ last_msg' = [last_msg EXCEPT ![g] = Empty]

\* a game whose task is over and whose Map is gone leaves its place to the next
Free(g) == pc[g] \notin {"top", "collect"} /\ maps[g] = NoMap

\* a start that leaves the roster as it is
run_keeps_roster ==
    /\ ~poisoned
    /\ IF ~good(state, players)
       THEN /\ ret' = Result("start_room", FALSE, "Room failed to start.")
            /\ UNCHANGED <<waiting, state, players, history, room_cfg, poisoned,
                           loops>>
       ELSE /\ \E h \in Games : Free(h)
            /\ Len(history) < MaxHistory
            /\ LET g == CHOOSE h \in Games : Free(h) /\ \A k \in Games : Free(k) => h <= k
               IN \E ids \in IdAssignments(DOMAIN players) :
                  \E map \in Map_new(width, height, tiles, Range(ids)) :
                    /\ maps' = [maps EXCEPT ![g] = map]
                    /\ state' = Playing(g,
                                   [a \in DOMAIN players |->
                                       [name |-> players[a], id |-> ids[a]]],
                                   g)
                    /\ players' = players
                    /\ sockets' = [sockets EXCEPT ![g] = [id \in Range(ids) |-> "idle"]]
                    /\ last_msg' = [last_msg EXCEPT ![g] = [id \in Range(ids) |-> "start"]]
                    /\ pc' = [pc EXCEPT ![g] = "top"]
                    /\ breaker' = [breaker EXCEPT ![g] = "open"]
            /\ ret' = Result("start_room", TRUE, "Started room execution.")
            /\ UNCHANGED <<waiting, history, room_cfg, poisoned, lmap>>

\* room_request, "start_room"
run ==
    /\ ~poisoned
    /\ IF ~good(state, players)
       THEN /\ ret' = Result("start_room", FALSE, "Room failed to start.")
            /\ UNCHANGED <<waiting, state, players, history, room_cfg, poisoned,
                           loops>>
       ELSE /\ \E h \in Games : Free(h)
            /\ Len(history) < MaxHistory
            /\ LET g == CHOOSE h \in Games : Free(h) /\ \A k \in Games : Free(k) => h <= k
               IN \E ids \in IdAssignments(DOMAIN players) :
                  \E map \in Map_new(width, height, tiles, Range(ids)) :
                    /\ maps' = [maps EXCEPT ![g] = map]
                    /\ state' = Playing(g,
                                   [a \in DOMAIN players |->
                                       [name |-> players[a], id |-> ids[a]]],
                                   g)
                    /\ players' = Empty
                    /\ sockets' = [sockets EXCEPT ![g] = [id \in Range(ids) |-> "idle"]]
                    \* setup_client: "start" is the first message of every session
                    /\ last_msg' = [last_msg EXCEPT ![g] = [id \in Range(ids) |-> "start"]]
                    /\ pc' = [pc EXCEPT ![g] = "top"]
                    /\ breaker' = [breaker EXCEPT ![g] = "open"]
            /\ ret' = Result("start_room", TRUE, "Started room execution.")
            /\ UNCHANGED <<waiting, history, room_cfg, poisoned, lmap>>

(***************************************************************************)
(* The tick loop of game g (loop_fn in run)                                *)
(***************************************************************************)
Request == {"Left", "Right", "Forward"}

\* what do_client_step does to the Map with the request it received
do_client_step(map, id, req) ==
    CASE req = "Forward" -> map
      [] req = "Left"    -> turn_left(map, id)
      [] req = "Right"   -> turn_right(map, id)

\* The top of an iteration: take the Map from the room, serialize it and call
\* do_client_step for every socket: a "dead" snapshot for a snake that is not
\* alive, a "playing" snapshot and a wait for one request for the others.
BeginTick(g) ==
    /\ pc[g] = "top"
    /\ IF ~poisoned /\ state.tag = "Playing"
       THEN /\ lmap' = [lmap EXCEPT ![g] = state.map]
            /\ sockets' = [sockets EXCEPT ![g] =
                  [id \in DOMAIN sockets[g] |->
                      IF is_alive(maps[state.map], id) THEN "pending" ELSE "dead"]]
            /\ last_msg' = [last_msg EXCEPT ![g] =
                  [id \in DOMAIN sockets[g] |->
                      IF is_alive(maps[state.map], id) THEN "playing" ELSE "dead"]]
            /\ pc' = [pc EXCEPT ![g] = "collect"]
            /\ UNCHANGED <<poisoned, breaker>>
       ELSE \* panic!("Error: room in weird state?") with the Room lock held,
            \* or lock().unwrap() on the poisoned mutex
            /\ TaskEnds(g, "panic")
            /\ poisoned' = TRUE
            /\ breaker' = [breaker EXCEPT ![g] = "dropped"]
    /\ ret' = NoResult
    /\ UNCHANGED <<waiting, state, players, history, room_cfg, maps>>

\* a session's request arrives and the closure of do_client_step applies it
ClientAnswer(g, id, req) ==
    /\ Len(history) < MaxHistory
    /\ pc[g] = "collect"
    /\ id \in DOMAIN sockets[g]
    /\ sockets[g][id] = "pending"
    /\ maps' = [maps EXCEPT ![lmap[g]] = do_client_step(@, id, req)]
    /\ sockets' = [sockets EXCEPT ![g][id] = "answered"]
    /\ ret' = NoResult
    /\ UNCHANGED <<waiting, state, players, history, room_cfg, poisoned, pc, lmap,
                   breaker, last_msg>>

\* an error handler that leaves the snake in the Map
on_error_keep_snake(map, id) == map

\* what an error of the exchange (no request received: a line that does not parse
\* or the end of the stream; a snapshot that cannot be sent) does to the Map
on_error(map, id) == delete_snake(map, id)

\* a fault that ends the whole tick loop instead of ditching one socket
ClientFault_aborts(g, id) ==
    /\ Len(history) < MaxHistory
    /\ pc[g] = "collect"
    /\ id \in DOMAIN sockets[g]
    /\ sockets[g][id] = "pending"
    /\ TaskEnds(g, "error")
    /\ breaker' = [breaker EXCEPT ![g] = "dropped"]
    /\ maps' = [maps EXCEPT ![lmap[g]] = on_error(@, id)]
    /\ ret' = NoResult
    /\ UNCHANGED <<waiting, state, players, history, room_cfg, poisoned>>

\* a session faults: map_err deletes its snake and the loop ditches the socket
ClientFault(g, id) ==
    /\ Len(history) < MaxHistory
    /\ pc[g] = "collect"
    /\ id \in DOMAIN sockets[g]
    /\ sockets[g][id] = "pending"
    /\ maps' = [maps EXCEPT ![lmap[g]] = on_error(@, id)]
    /\ sockets' = [sockets EXCEPT ![g] = HRemove(@, id)]
    /\ ret' = NoResult
    /\ UNCHANGED <<waiting, state, players, history, room_cfg, poisoned, pc, lmap,
                   breaker, last_msg>>

\* what the expiry of the timeout that wraps the exchange does to the Map: the
\* exchange, with its map_err, is dropped
on_timeout(map, id) == map

\* the tick's time budget of a session runs out (only with a timestep)
Timeout(g, id) ==
    /\ Len(history) < MaxHistory
    /\ timestep
    /\ pc[g] = "collect"
    /\ id \in DOMAIN sockets[g]
    /\ sockets[g][id] = "pending"
    /\ maps' = [maps EXCEPT ![lmap[g]] = on_timeout(@, id)]
    /\ sockets' = [sockets EXCEPT ![g] = HRemove(@, id)]
    /\ ret' = NoResult
    /\ UNCHANGED <<waiting, state, players, history, room_cfg, poisoned, pc, lmap,
                   breaker, last_msg>>

\* the "dead" snapshot cannot be sent: the loop ditches the socket
DeadSendFault(g, id) ==
    /\ Len(history) < MaxHistory
    /\ pc[g] = "collect"
    /\ id \in DOMAIN sockets[g]
    /\ sockets[g][id] = "dead"
    /\ sockets' = [sockets EXCEPT ![g] = HRemove(@, id)]
    /\ ret' = NoResult
    /\ UNCHANGED <<waiting, state, players, history, room_cfg, poisoned, maps, pc, lmap,
                   breaker, last_msg>>

\* a collect that does not wait for the exchanges
Collected_no_barrier(g) == pc[g] = "collect"

\* collect: every exchange of the tick has ended, with a socket or with an error
Collected(g) ==
    /\ pc[g] = "collect"
    /\ \A id \in DOMAIN sockets[g] : sockets[g][id] # "pending"

\* the frozen score table of do_server_step: address -> (name, score), or the
\* failure of expect when an id has no address
FinalScores(addrs, scores) ==
    IF \A id \in DOMAIN scores : \E a \in DOMAIN addrs : addrs[a].id = id
    THEN [ok |-> TRUE,
          scores |-> [a \in {b \in DOMAIN addrs : addrs[b].id \in DOMAIN scores} |->
                        [name |-> addrs[a].name, score |-> scores[addrs[a].id]]]]
    ELSE [ok |-> FALSE]

\* a replace that hands back the value it has just stored
mem_replace_new(dest, src) == [dest |-> src, old |-> src]

\* std::mem::replace(dest, src): src is stored in dest and the old value returned
mem_replace(dest, src) == [dest |-> src, old |-> dest]

\* a task that ends without a word to its sessions
done_messages_none(socks) == Empty

\* what the sockets that the last tick left are sent after a Break: "done" to each
done_messages(socks) == [id \in DOMAIN socks |-> "done"]

\* do_server_step, and after a Break the "done" messages
ServerStep(g) ==
    /\ Collected(g)
    /\ Len(history) < MaxHistory
    /\ IF poisoned
       THEN /\ TaskEnds(g, "panic")
            /\ breaker' = [breaker EXCEPT ![g] = "dropped"]
            /\ maps' = Live(maps, state, pc', lmap')
            /\ UNCHANGED <<state, history, poisoned>>
       ELSE \E r \in Map_step(maps[lmap[g]]) :
            IF r.ok
            THEN \* mem::replace puts the new Map behind the Arc and returns the old one
                 LET swap == mem_replace(maps[lmap[g]], r.map)
                 IN /\ history' = Append(history, swap.old)
                    /\ pc' = [pc EXCEPT ![g] = "top"]
                    /\ sockets' = [sockets EXCEPT ![g] = [id \in DOMAIN @ |-> "idle"]]
                    /\ lmap' = [lmap EXCEPT ![g] = 0]
                    /\ maps' = Live([maps EXCEPT ![lmap[g]] = swap.dest], state, pc', lmap')
                 /\ UNCHANGED <<state, poisoned, breaker, last_msg>>
            ELSE /\ history' = Append(history, maps[lmap[g]])
                 /\ IF state.tag = "Playing"
                    THEN LET f == FinalScores(state.addrs, r.scores)
                         IN IF f.ok
                            THEN /\ state' = Finished(f.scores)
                                 \* Break: the "done" messages, then the task is over
                                 /\ pc' = [pc EXCEPT ![g] = "done"]
                                 /\ sockets' = [sockets EXCEPT ![g] = done_messages(@)]
                                 /\ last_msg' = [last_msg EXCEPT ![g] = done_messages(sockets[g])]
                                 /\ lmap' = [lmap EXCEPT ![g] = 0]
                                 \* the sender of the room's breaker is dropped
                                 /\ breaker' = [b \in Games |->
                                       IF b = g THEN "dropped"
                                       ELSE IF b = state.breaker /\ breaker[b] = "open"
                                       THEN "sent" ELSE breaker[b]]
                                 /\ UNCHANGED poisoned
                            ELSE \* expect("addr -> snake table incomplete")
                                 /\ TaskEnds(g, "panic")
                                 /\ poisoned' = TRUE
                                 /\ breaker' = [breaker EXCEPT ![g] = "dropped"]
                                 /\ UNCHANGED state
                    ELSE \* "room in weird state?"
                         /\ TaskEnds(g, "error")
                         /\ breaker' = [breaker EXCEPT ![g] = "dropped"]
                         /\ UNCHANGED <<state, poisoned>>
                 /\ maps' = Live(maps, state', pc', lmap')
    /\ ret' = NoResult
    /\ UNCHANGED <<waiting, players, room_cfg>>

\* select: the loop cannot go on and the breaker has fired, so the task is dropped
Cancel(g) ==
    /\ breaker[g] = "sent"
    /\ pc[g] = "collect"
    /\ ~Collected(g)
    /\ TaskEnds(g, "cancelled")
    /\ breaker' = [breaker EXCEPT ![g] = "dropped"]
    /\ maps' = Live(maps, state, pc', lmap')
    /\ ret' = NoResult
    /\ UNCHANGED <<waiting, state, players, history, room_cfg, poisoned>>

Ids == 0..(Cardinality(Addrs) - 1)

Next ==
    \/ \E addr \in Addrs : insert(addr, NameOf[addr]) /\ UNCHANGED locking
    \/ \E addr \in Addrs : subscribe(addr) /\ UNCHANGED locking
    \/ \E addr \in Addrs : unsubscribe(addr) /\ UNCHANGED locking
    \/ \E addr \in Addrs : remove(addr) /\ UNCHANGED locking
    \/ clear /\ UNCHANGED locking
    \/ reset /\ UNCHANGED locking
    \/ run /\ UNCHANGED locking
    \/ \E g \in Games : BeginTick(g) /\ UNCHANGED locking
    \/ \E g \in Games, id \in Ids, req \in Request : ClientAnswer(g, id, req) /\ UNCHANGED locking
    \/ \E g \in Games, id \in Ids : ClientFault(g, id) /\ UNCHANGED locking
    \/ \E g \in Games, id \in Ids : Timeout(g, id) /\ UNCHANGED locking
    \/ \E g \in Games, id \in Ids : DeadSendFault(g, id) /\ UNCHANGED locking
    \/ \E g \in Games : ServerStep(g) /\ UNCHANGED locking
    \/ \E g \in Games : Cancel(g) /\ UNCHANGED locking

\* the whole system
Spec == Init /\ [][Next]_vars

(***************************************************************************)
(* The administrative requests, in any order, around the games of a room   *)
(* with one Blank tile and no timestep.  Every session goes straight on,   *)
(* and a game is started only when the loop of the game before is over.    *)
(***************************************************************************)
Quiet == \A g \in Games : pc[g] \notin {"top", "collect"}

InitAdmin ==
    /\ waiting = Empty
    /\ \E t \in RoomTemplates : Cardinality(BlankIndices(t.tiles)) = 1 /\ RoomNew(FALSE, t)

NextAdmin ==
    \/ \E addr \in Addrs : insert(addr, NameOf[addr]) /\ UNCHANGED locking
    \/ \E addr \in Addrs : subscribe(addr) /\ UNCHANGED locking
    \/ \E addr \in Addrs : unsubscribe(addr) /\ UNCHANGED locking
    \/ \E addr \in Addrs : remove(addr) /\ UNCHANGED locking
    \/ clear /\ UNCHANGED locking
    \/ reset /\ UNCHANGED locking
    \/ (good(state, players) => Quiet) /\ run /\ UNCHANGED locking
    \/ \E g \in Games : BeginTick(g) /\ UNCHANGED locking
    \/ \E g \in Games, id \in Ids : ClientAnswer(g, id, "Forward") /\ UNCHANGED locking
    \/ \E g \in Games : ServerStep(g) /\ UNCHANGED locking
    \/ \E g \in Games : Cancel(g) /\ UNCHANGED locking

SpecAdmin == InitAdmin /\ [][NextAdmin]_vars

(***************************************************************************)
(* One game of the connections that are waiting, with every request, fault *)
(* and timeout of its sessions.                                            *)
(***************************************************************************)
InitTick ==
    /\ waiting = NameOf
    /\ \E ts \in BOOLEAN : \E t \in RoomTemplates : RoomNew(ts, t)

NextTick ==
    \/ \E addr \in Addrs : subscribe(addr) /\ UNCHANGED locking
    \/ run /\ UNCHANGED locking
    \/ \E g \in Games : BeginTick(g) /\ UNCHANGED locking
    \/ \E g \in Games, id \in Ids, req \in Request : ClientAnswer(g, id, req) /\ UNCHANGED locking
    \/ \E g \in Games, id \in Ids : ClientFault(g, id) /\ UNCHANGED locking
    \/ \E g \in Games, id \in Ids : Timeout(g, id) /\ UNCHANGED locking
    \/ \E g \in Games, id \in Ids : DeadSendFault(g, id) /\ UNCHANGED locking
    \/ \E g \in Games : ServerStep(g) /\ UNCHANGED locking

SpecTick == InitTick /\ [][NextTick]_vars

(***************************************************************************)
(* Resets and restarts while the loop of an earlier game is still alive:   *)
(* connections come and are subscribed while the room is Waiting, a game   *)
(* is reset while it is played, the sessions go straight on; the room has  *)
(* one Blank tile and no timestep.                                         *)
(***************************************************************************)
InitRace ==
    /\ waiting = NameOf
    /\ \E t \in RoomTemplates : Cardinality(BlankIndices(t.tiles)) = 1 /\ RoomNew(FALSE, t)

NextRace ==
    \/ \E addr \in Addrs : state.tag = "Waiting" /\ insert(addr, NameOf[addr]) /\ UNCHANGED locking
    \/ \E addr \in Addrs : state.tag = "Waiting" /\ subscribe(addr) /\ UNCHANGED locking
    \/ state.tag = "Playing" /\ reset /\ UNCHANGED locking
    \/ run /\ UNCHANGED locking
    \/ \E g \in Games : BeginTick(g) /\ UNCHANGED locking
    \/ \E g \in Games, id \in Ids : ClientAnswer(g, id, "Forward") /\ UNCHANGED locking
    \/ \E g \in Games : ServerStep(g) /\ UNCHANGED locking
    \/ \E g \in Games : Cancel(g) /\ UNCHANGED locking

SpecRace == InitRace /\ [][NextRace]_vars

(***************************************************************************)
(* A game on the room with two Blank tiles that is reset after its first   *)
(* step and started again for the first connection, which has come back,   *)
(* while the loop of the first game is still alive.                        *)
(***************************************************************************)
InitRerun ==
    /\ waiting = NameOf
    /\ \E t \in RoomTemplates : Cardinality(BlankIndices(t.tiles)) = 2 /\ RoomNew(FALSE, t)

NextRerun ==
    \/ state.tag = "Waiting" /\ history # <<>> /\ insert("a1", NameOf["a1"]) /\ UNCHANGED locking
    \/ \E addr \in DOMAIN waiting : state.tag = "Waiting" /\ subscribe(addr) /\ UNCHANGED locking
    \/ state.tag = "Playing" /\ history # <<>> /\ reset /\ UNCHANGED locking
    \/ good(state, players) /\ waiting = Empty /\ run /\ UNCHANGED locking
    \/ \E g \in Games : BeginTick(g) /\ UNCHANGED locking
    \/ \E g \in Games, id \in Ids : ClientAnswer(g, id, "Forward") /\ UNCHANGED locking
    \/ \E g \in Games : ServerStep(g) /\ UNCHANGED locking
    \/ \E g \in Games : Cancel(g) /\ UNCHANGED locking

SpecRerun == InitRerun /\ [][NextRerun]_vars

(***************************************************************************)
(* The Map of one game along its ticks, on small grids without a Wall or   *)
(* with a single one, with every request of its sessions.  Of              *)
(* the history of the room only the Map pushed last is kept, so a game is  *)
(* followed as long as it lasts.                                           *)
(***************************************************************************)
\* "Speckled" of main.rs (an open torus with a few Walls) cut down
GridTemplates ==
    { [width |-> 2, height |-> 2, tiles |-> [i \in 0..3 |-> Blank]],
      [width |-> 3, height |-> 1, tiles |-> [i \in 0..2 |-> Blank]],
      [width |-> 2, height |-> 2, tiles |-> [i \in 0..3 |-> IF i = 0 THEN Wall ELSE Blank]] }

\* do_server_step with a Room.history that is cut to the Map pushed last
GridStep(g) ==
    /\ Collected(g)
    /\ ~poisoned /\ state.tag = "Playing"
    /\ \E r \in Map_step(maps[lmap[g]]) :
          IF r.ok
          THEN LET swap == mem_replace(maps[lmap[g]], r.map)
               IN /\ history' = <<swap.old>>
                  /\ maps' = [maps EXCEPT ![lmap[g]] = swap.dest]
                  /\ pc' = [pc EXCEPT ![g] = "top"]
                  /\ sockets' = [sockets EXCEPT ![g] = [id \in DOMAIN @ |-> "idle"]]
                  /\ lmap' = [lmap EXCEPT ![g] = 0]
                  /\ UNCHANGED <<state, breaker, last_msg>>
          ELSE /\ history' = <<maps[lmap[g]]>>
               /\ state' = Finished(FinalScores(state.addrs, r.scores).scores)
               /\ pc' = [pc EXCEPT ![g] = "done"]
               /\ sockets' = [sockets EXCEPT ![g] = done_messages(@)]
               /\ last_msg' = [last_msg EXCEPT ![g] = done_messages(sockets[g])]
               /\ lmap' = [lmap EXCEPT ![g] = 0]
               /\ breaker' = [breaker EXCEPT ![g] = "dropped"]
               /\ maps' = Live(maps, state', pc', lmap')
    /\ ret' = NoResult
    /\ UNCHANGED <<waiting, players, room_cfg, poisoned>>

\* a new room of one of the templates
InitGrid ==
    /\ waiting = Empty
    /\ \E t \in GridTemplates : RoomNew(FALSE, t)

NextGrid ==
    \/ \E addr \in Addrs : state.tag = "Waiting" /\ insert(addr, NameOf[addr]) /\ UNCHANGED locking
    \/ \E addr \in Addrs : state.tag = "Waiting" /\ subscribe(addr) /\ UNCHANGED locking
    \/ good(state, players) /\ run /\ UNCHANGED locking
    \/ \E g \in Games : BeginTick(g) /\ UNCHANGED locking
    \/ \E g \in Games, id \in Ids, req \in Request : ClientAnswer(g, id, req) /\ UNCHANGED locking
    \/ \E g \in Games : GridStep(g) /\ UNCHANGED locking

SpecGrid == InitGrid /\ [][NextGrid]_vars

(***************************************************************************)
(* The games of the open 2x2 grid with sessions that fault: SpecGrid on    *)
(* one template, with the snake of a faulting session deleted before the   *)
(* step of the tick.                                                       *)
(***************************************************************************)
InitCull ==
    /\ waiting = Empty
    /\ RoomNew(FALSE, [width |-> 2, height |-> 2, tiles |-> [i \in 0..3 |-> Blank]])

NextCull ==
    \/ NextGrid
    \/ \E g \in Games, id \in Ids : ClientFault(g, id) /\ UNCHANGED locking

SpecCull == InitCull /\ [][NextCull]_vars

(***************************************************************************)
(* One game on the room with two Blank tiles whose sessions fault or run   *)
(* out of time, followed as long as it lasts (the history cut to the Map   *)
(* pushed last).  The task of the game is polled again and again: the top  *)
(* of its loop and the step of a collected tick are taken when they can be.*)
(***************************************************************************)
InitFault ==
    /\ waiting = NameOf
    /\ \E ts \in BOOLEAN :
         \E t \in RoomTemplates : Cardinality(BlankIndices(t.tiles)) = 2 /\ RoomNew(ts, t)

LoopTurn == \E g \in Games : (BeginTick(g) \/ GridStep(g)) /\ UNCHANGED locking

NextFault ==
    \/ \E addr \in DOMAIN waiting : subscribe(addr) /\ UNCHANGED locking
    \/ good(state, players) /\ run /\ UNCHANGED locking
    \/ \E g \in Games : BeginTick(g) /\ UNCHANGED locking
    \/ \E g \in Games, id \in Ids : ClientAnswer(g, id, "Forward") /\ UNCHANGED locking
    \/ \E g \in Games, id \in Ids : ClientFault(g, id) /\ UNCHANGED locking
    \/ \E g \in Games, id \in Ids : Timeout(g, id) /\ UNCHANGED locking
    \/ \E g \in Games, id \in Ids : DeadSendFault(g, id) /\ UNCHANGED locking
    \/ \E g \in Games : GridStep(g) /\ UNCHANGED locking

SpecFault == InitFault /\ [][NextFault]_vars /\ WF_vars(LoopTurn)

(***************************************************************************)
(* The locks.  A thread is in a section of code that takes the guards of   *)
(* LockOrder, one by one, waiting for each until it is free, then does the *)
(* work of the section and drops its guards.  The handler of a request     *)
(* (html.rs: room_request, then room_page) and the task of a game (the     *)
(* closure of loop_fn, do_server_step) go through their sections in the    *)
(* order of the code.  A start is requested when no task is running.       *)
(***************************************************************************)
data == <<waiting, state, players, history, room_cfg, poisoned, loops, ret>>

\* do_server_step taking the guard of the Map before that of the Room
do_server_step_locks_map_first == <<"map", "room">>

\* do_server_step: "always lock room before map"
do_server_step_locks == <<"room", "map">>

\* the guards a section takes, in the order in which the code takes them
LockOrder(sec) ==
    CASE sec \in {"subscribe", "unsubscribe", "reset", "run", "page", "history", "top"}
            -> <<"room">>
      [] sec = "page_map" -> <<"room", "map">>
      [] sec = "ser" -> <<"map">>
      [] sec = "step" -> do_server_step_locks
      [] OTHER -> <<>>

GameOf(th) == CHOOSE g \in Games : Task(g) = th

\* the Map whose Mutex the thread locks: the one of the Playing state for a
\* handler, the one the closure of loop_fn cloned for a task
MapOf(th) == IF th \in Handlers THEN state.map ELSE lmap[GameOf(th)]

\* the thread is at lock() of this Mutex
Wants(th, lock) ==
    /\ thread[th].got < Len(LockOrder(thread[th].sec))
    /\ LockOrder(thread[th].sec)[thread[th].got + 1] = lock

\* the guards of the thread are dropped
Release(th) ==
    /\ room_mutex' = IF room_mutex = th THEN "free" ELSE room_mutex
    /\ map_mutex' = [g \in Games |-> IF map_mutex[g] = th THEN "free" ELSE map_mutex[g]]

\* lock(): the thread gets the guard of the next Mutex of its section when the
\* Mutex is free; lock().unwrap() of a handler on the poisoned Room panics
Take(th) ==
    /\ \/ /\ Wants(th, "room") /\ room_mutex = "free"
          /\ IF poisoned /\ th \in Handlers
             THEN /\ thread' = [thread EXCEPT ![th] = Idle]
                  /\ UNCHANGED room_mutex
             ELSE /\ room_mutex' = th
                  /\ thread' = [thread EXCEPT ![th].got = @ + 1]
          /\ UNCHANGED map_mutex
       \/ /\ Wants(th, "map") /\ map_mutex[MapOf(th)] = "free"
          /\ map_mutex' = [map_mutex EXCEPT ![MapOf(th)] = th]
          /\ thread' = [thread EXCEPT ![th].got = @ + 1]
          /\ UNCHANGED room_mutex
    /\ UNCHANGED data

\* the thread has every guard of its section
Locked(th, sec) ==
    thread[th] = [sec |-> sec, got |-> Len(LockOrder(sec))]

\* a request arrives at a handler: room_request for a form, room_page for a GET
Arrive(h, sec) ==
    /\ thread[h] = Idle
    /\ thread' = [thread EXCEPT ![h] = [sec |-> sec, got |-> 0]]
    /\ UNCHANGED <<data, room_mutex, map_mutex>>

\* room_request: the branch of the form under the guard of the Room, which is
\* dropped at the end of the branch; room_page follows
Then_room_page(h) == thread' = [thread EXCEPT ![h] = [sec |-> "page", got |-> 0]]

HandleSubscribe(h, addr) ==
    Locked(h, "subscribe") /\ subscribe(addr) /\ Release(h) /\ Then_room_page(h)

HandleUnsubscribe(h, addr) ==
    Locked(h, "unsubscribe") /\ unsubscribe(addr) /\ Release(h) /\ Then_room_page(h)

HandleReset(h) ==
    Locked(h, "reset") /\ reset /\ Release(h) /\ Then_room_page(h)

\* room::run: the Room is unlocked before the task is spawned
HandleRun(h) ==
    /\ Locked(h, "run") /\ run /\ Release(h)
    /\ thread' = [th \in Threads |->
          IF th = h THEN [sec |-> "page", got |-> 0]
          ELSE IF pc[GameOf(th)] # "top" /\ pc'[GameOf(th)] = "top"
          THEN [sec |-> "top", got |-> 0]
          ELSE thread[th]]

\* room_page under the guard of the Room: for a Playing room it goes on to lock
\* the Map, for the others it is done
HandlePage(h) ==
    /\ Locked(h, "page")
    /\ IF state.tag = "Playing"
       THEN /\ thread' = [thread EXCEPT ![h] = [sec |-> "page_map", got |-> 1]]
            /\ UNCHANGED <<room_mutex, map_mutex>>
       ELSE /\ thread' = [thread EXCEPT ![h] = Idle]
            /\ Release(h)
    /\ UNCHANGED data

\* room_page with both guards: the scores are read and the guards dropped
HandlePageMap(h) ==
    /\ Locked(h, "page_map")
    /\ thread' = [thread EXCEPT ![h] = Idle]
    /\ Release(h)
    /\ UNCHANGED data

\* main.rs, the route of the history: the history is serialized under the guard
\* of the Room
HandleHistory(h) ==
    /\ Locked(h, "history")
    /\ thread' = [thread EXCEPT ![h] = Idle]
    /\ Release(h)
    /\ UNCHANGED data

\* the closure of loop_fn under the guard of the Room
LoopTop(g) ==
    /\ Locked(Task(g), "top") /\ BeginTick(g) /\ Release(Task(g))
    /\ thread' = [thread EXCEPT ![Task(g)] =
          IF pc'[g] = "collect" THEN [sec |-> "ser", got |-> 0] ELSE Idle]

\* the Map is serialized under its guard; the exchanges follow
LoopSerialize(g) ==
    /\ Locked(Task(g), "ser")
    /\ thread' = [thread EXCEPT ![Task(g)] = [sec |-> "exchange", got |-> 0]]
    /\ Release(Task(g))
    /\ UNCHANGED data

\* an exchange: turn_left and turn_right lock the Map for the call
LoopAnswer(g, id, req) ==
    /\ thread[Task(g)].sec = "exchange"
    /\ req = "Forward" \/ map_mutex[lmap[g]] = "free"
    /\ ClientAnswer(g, id, req)
    /\ UNCHANGED locking

\* an exchange that fails: map_err locks the Map for delete_snake
LoopFault(g, id) ==
    /\ thread[Task(g)].sec = "exchange"
    /\ map_mutex[lmap[g]] = "free"
    /\ ClientFault(g, id)
    /\ UNCHANGED locking

\* every exchange has ended: and_then calls do_server_step
LoopCollected(g) ==
    /\ thread[Task(g)].sec = "exchange"
    /\ Collected(g) /\ Len(history) < MaxHistory
    /\ thread' = [thread EXCEPT ![Task(g)] = [sec |-> "step", got |-> 0]]
    /\ UNCHANGED <<data, room_mutex, map_mutex>>

\* do_server_step under both guards
LoopStep(g) ==
    /\ Locked(Task(g), "step") /\ ServerStep(g) /\ Release(Task(g))
    /\ thread' = [thread EXCEPT ![Task(g)] =
          IF pc'[g] = "top" THEN [sec |-> "top", got |-> 0] ELSE Idle]

\* select drops the task while it waits for its sessions
LoopCancel(g) ==
    /\ thread[Task(g)].sec = "exchange"
    /\ Cancel(g)
    /\ thread' = [thread EXCEPT ![Task(g)] = Idle]
    /\ UNCHANGED <<room_mutex, map_mutex>>

InitLock ==
    /\ waiting = NameOf
    /\ \E t \in RoomTemplates : Cardinality(BlankIndices(t.tiles)) = 1 /\ RoomNew(FALSE, t)

NextLock ==
    \/ \E h \in Handlers :
          \E sec \in {"subscribe", "unsubscribe", "reset", "run", "page", "history"} :
              (sec = "run" => Quiet) /\ Arrive(h, sec)
    \/ \E th \in Threads : Take(th)
    \/ \E h \in Handlers, addr \in Addrs : HandleSubscribe(h, addr)
    \/ \E h \in Handlers, addr \in Addrs : HandleUnsubscribe(h, addr)
    \/ \E h \in Handlers : HandleReset(h)
    \/ \E h \in Handlers : HandleRun(h)
    \/ \E h \in Handlers : HandlePage(h)
    \/ \E h \in Handlers : HandlePageMap(h)
    \/ \E h \in Handlers : HandleHistory(h)
    \/ \E g \in Games : LoopTop(g)
    \/ \E g \in Games : LoopSerialize(g)
    \/ \E g \in Games, id \in Ids, req \in Request : LoopAnswer(g, id, req)
    \/ \E g \in Games, id \in Ids : LoopFault(g, id)
    \/ \E g \in Games : LoopCollected(g)
    \/ \E g \in Games : LoopStep(g)
    \/ \E g \in Games : LoopCancel(g)

SpecLock == InitLock /\ [][NextLock]_vars

(***************************************************************************)
(* Properties                                                              *)
(***************************************************************************)
Active(at) == at \in {"top", "collect"}

\* C1: run succeeds exactly on a Waiting room with a non-empty roster; on a
\* Waiting room with an empty roster and on a Playing or Finished room it
\* reports failure and leaves the state, the roster, the Maps and the history
\* of the room as they were.
C1_StartOnlyFromWaitingWithRoster ==
    [][ret'.op = "start_room" =>
          /\ ret'.ok <=> (state.tag = "Waiting" /\ DOMAIN players # {})
          /\ ~ret'.ok => UNCHANGED <<state, players, maps, history>>]_vars

\* run has just failed on a room that is Playing
C1_Witness ==
    /\ ret.op = "start_room" /\ ~ret.ok
    /\ state.tag = "Playing"

\* C2: whatever reset found and whatever it reports, it leaves the room Waiting
\* with an empty roster.
C2_ResetLeavesWaitingEmpty ==
    ret.op = "reset_room" => state = Waiting /\ players = Empty

\* reset has just been called on a Playing room: its breaker has fired
C2_Witness ==
    /\ ret.op = "reset_room"
    /\ \E g \in Games : breaker[g] = "sent" /\ Active(pc[g])

\* C3, as claimed: reset on a room that is not Playing returns success and leaves
\* the state (with the frozen scores) and the roster as they were.
C3_ResetNotPlayingIsNoOp ==
    [][ret'.op = "reset_room" /\ state.tag # "Playing" =>
          ret'.ok /\ state' = state /\ players' = players]_vars

\* C3, amended: reset on a room that is not Playing returns success and fires no
\* breaker; it leaves the room Waiting with an empty roster (the roster of a
\* Waiting room is cleared, the frozen scores of a Finished room are dropped),
\* and the waiting list, the history, the Maps and the loops as they were.
C3_ResetNotPlayingSucceeds ==
    [][ret'.op = "reset_room" /\ state.tag # "Playing" =>
          /\ ret'.ok
          /\ state' = Waiting /\ players' = Empty
          /\ UNCHANGED <<waiting, history, maps, pc, sockets, lmap, breaker>>]_vars

\* reset has just returned success without firing a breaker, after a game that
\* ended by itself: it found the room Finished, or Waiting after an earlier reset
C3_Witness ==
    /\ ret.op = "reset_room" /\ ret.ok
    /\ \A g \in Games : breaker[g] # "sent"
    /\ \E g \in Games : pc[g] = "done"
    /\ history # <<>>

\* C4: subscribe moves the waiter into the roster exactly when the address is in
\* the waiting list and the room is Waiting; otherwise it returns an error and the
\* waiting list, the state and the roster are as before.
C4_SubscribeMovesOrFails ==
    [][\A addr \in Addrs : subscribe(addr) =>
          IF addr \in DOMAIN waiting /\ state.tag = "Waiting"
          THEN /\ ret'.ok
               /\ addr \notin DOMAIN waiting'
               /\ \A a \in Addrs \ {addr} :
                     /\ a \in DOMAIN waiting' <=> a \in DOMAIN waiting
                     /\ a \in DOMAIN waiting => waiting'[a] = waiting[a]
                     /\ a \in DOMAIN players' <=> a \in DOMAIN players
                     /\ a \in DOMAIN players => players'[a] = players[a]
               /\ addr \in DOMAIN players' /\ players'[addr] = waiting[addr]
               /\ state' = state
          ELSE /\ ~ret'.ok
               /\ UNCHANGED <<waiting, state, players>>]_vars

\* subscribe has just refused a waiter because the room is Playing
C4_Witness ==
    /\ ret = Result("subscribe", FALSE, "provided room is already in progress")
    /\ state.tag = "Playing"
    /\ DOMAIN waiting # {}

\* C5: unsubscribe of an address of the roster removes it from the roster and
\* puts it, with its name, into the waiting list; for any other address it fails
\* and leaves the roster and the waiting list as they were.
C5_UnsubscribeReturnsWaiter ==
    [][\A addr \in Addrs : unsubscribe(addr) =>
          IF addr \in DOMAIN players
          THEN /\ ret'.ok
               /\ addr \notin DOMAIN players'
               /\ addr \in DOMAIN waiting' /\ waiting'[addr] = players[addr]
               /\ \A a \in Addrs \ {addr} :
                     /\ a \in DOMAIN waiting' <=> a \in DOMAIN waiting
                     /\ a \in DOMAIN waiting => waiting'[a] = waiting[a]
                     /\ a \in DOMAIN players' <=> a \in DOMAIN players
                     /\ a \in DOMAIN players => players'[a] = players[a]
          ELSE /\ ~ret'.ok
               /\ UNCHANGED <<waiting, players>>]_vars

\* unsubscribe has just handed a session back while another stays in the roster
C5_Witness ==
    /\ ret.op = "unsubscribe" /\ ret.ok
    /\ DOMAIN waiting # {}
    /\ DOMAIN players # {}

\* C6, as claimed: a start that follows an earlier game (one that left its Maps in
\* the history) gives a Map with as many live snakes as the roster had sessions.
C6_RestartSnakePerSession ==
    ret.op = "start_room" /\ ret.ok /\ history # <<>> =>
        Cardinality(DOMAIN maps[state.map].snakes) = Cardinality(DOMAIN state.addrs)

\* C7: the step of a tick is not taken while a session that got a "playing"
\* snapshot has neither answered nor been ditched; without a timestep a session
\* goes from waiting to ditched only by its own fault, and while it waits
\* nothing is appended to the history and the Map is not stepped.
C7_TickBarrier ==
    [][\A g \in Games : pc[g] = "collect" =>
          /\ Len(history') > Len(history) /\ pc'[g] # "collect" =>
                \A id \in DOMAIN sockets[g] : sockets[g][id] # "pending"
          /\ \A id \in DOMAIN sockets[g] :
                sockets[g][id] = "pending" /\ ~timestep /\ ~ClientFault(g, id)
                /\ (\A req \in Request : ~ClientAnswer(g, id, req))
                /\ pc'[g] # "cancelled" =>
                    /\ pc'[g] = "collect"
                    /\ id \in DOMAIN sockets'[g] /\ sockets'[g][id] = "pending"
                    /\ history' = history
                    /\ maps'[lmap[g]].tiles = maps[lmap[g]].tiles
                    /\ maps'[lmap[g]].scores = maps[lmap[g]].scores]_vars

\* without a timestep one session has answered and the loop waits for the other
C7_Witness ==
    /\ ~timestep
    /\ \E g \in Games : \E id, other \in DOMAIN sockets[g] :
          /\ pc[g] = "collect"
          /\ sockets[g][id] = "pending"
          /\ sockets[g][other] = "answered"

\* the sessions a step of the system ditches from the loop of game g
Ditched(g) == DOMAIN sockets[g] \ DOMAIN sockets'[g]

\* C8: a session ditched during a tick takes nothing else with it: the loop still
\* collects, the other sessions keep what the tick did with them, the snakes of
\* the others keep the headings their requests gave them, and when all have
\* answered or faulted the step can be taken; a ditched session never comes back,
\* and neither the step nor the next tick's fan-out loses a session; the step
\* moves the snakes that are left along the headings the tick gave them.
C8_FaultDoesNotAbortTick ==
    /\ [][\A g \in Games :
            /\ pc[g] = "collect" /\ Ditched(g) # {} /\ history' = history
               /\ pc'[g] \notin {"cancelled", "panic"} =>
                  /\ pc'[g] = "collect"
                  /\ lmap'[g] = lmap[g]
                  /\ \A id \in DOMAIN sockets'[g] : sockets'[g][id] = sockets[g][id]
                  /\ \A id \in DOMAIN maps[lmap[g]].snakes \ Ditched(g) :
                        /\ id \in DOMAIN maps'[lmap[g]].snakes
                        /\ maps'[lmap[g]].snakes[id] = maps[lmap[g]].snakes[id]
            /\ Active(pc[g]) /\ Active(pc'[g]) =>
                  /\ DOMAIN sockets'[g] \subseteq DOMAIN sockets[g]
                  /\ pc'[g] # pc[g] => DOMAIN sockets'[g] = DOMAIN sockets[g]]_vars
    /\ [][\A g \in Games :
            pc[g] = "collect" /\ pc'[g] = "top" =>
                /\ history' = Append(history, maps[lmap[g]])
                /\ DOMAIN sockets'[g] = DOMAIN sockets[g]
                /\ \A id \in DOMAIN maps'[lmap[g]].snakes :
                      /\ id \in DOMAIN maps[lmap[g]].snakes
                      /\ maps'[lmap[g]].snakes[id].dir = maps[lmap[g]].snakes[id].dir]_vars
    /\ [](\A g \in Games :
            Collected(g) /\ Len(history) < MaxHistory /\ ~poisoned =>
                Map_step(maps[lmap[g]]) # {})

\* one session of two faulted in the first tick, the other turned its snake, the
\* step was taken and the second tick has begun with the other session alone
C8_Witness ==
    \E g \in Games :
      /\ pc[g] = "collect"
      /\ Len(history) = 1
      /\ Cardinality(DOMAIN history[1].scores) = 2
      /\ \E id \in DOMAIN history[1].snakes :
            /\ DOMAIN history[1].snakes = {id}
            /\ DOMAIN sockets[g] = {id}
            /\ history[1].tiles[to_index(history[1], history[1].snakes[id].head)]
                  # SnakeHead(id, history[1].snakes[id].dir)

\* C9: a fault of a session takes its snake out of the live-snake table at once,
\* before the step of the tick can be taken; a snake that is out never comes back
\* into the table of its game; so without a timestep every live snake of a
\* running game belongs to a session that the loop still holds.
C9_FaultCullsSnakeBeforeStep ==
    /\ [][\A g \in Games :
            /\ \A id \in Ids : ClientFault(g, id) =>
                  /\ is_alive(maps[lmap[g]], id)
                  /\ ~is_alive(maps'[lmap[g]], id)
                  /\ history' = history
                  /\ id \notin DOMAIN sockets'[g]
            /\ Active(pc[g]) /\ Active(pc'[g]) =>
                  DOMAIN maps'[g].snakes \subseteq DOMAIN maps[g].snakes]_vars
    /\ [](\A g \in Games :
            ~timestep /\ Active(pc[g]) =>
                DOMAIN maps[g].snakes \subseteq DOMAIN sockets[g])

\* without a timestep one of two seeded snakes is gone before the first step
C9_Witness ==
    /\ ~timestep
    /\ history = <<>>
    /\ \E g \in Games :
          /\ pc[g] = "collect"
          /\ Cardinality(DOMAIN maps[g].scores) = 2
          /\ Cardinality(DOMAIN maps[g].snakes) = 1
          /\ DOMAIN sockets[g] = DOMAIN maps[g].snakes

\* C10, as claimed: a session whose time budget runs out is ditched and its snake
\* is taken out of the live-snake table before the step of the tick.
C10_TimeoutCullsSnake ==
    [][\A g \in Games, id \in Ids : Timeout(g, id) =>
          /\ id \notin DOMAIN sockets'[g]
          /\ ~is_alive(maps'[lmap[g]], id)]_vars

StepFailed(g) ==
    /\ pc[g] = "collect" /\ pc'[g] \notin {"top", "collect"}
    /\ Len(history') > Len(history)

\* C12, as claimed: when the step of a loop fails while the room is Playing, the
\* room becomes Finished and its frozen table has exactly one entry, address ->
\* (name, score), for each snake id of the table the step returned, found
\* through the roster of the Playing state; the ids of a roster are pairwise
\* distinct.
C12_FinishedTablePerSnake ==
    /\ [][\A g \in Games :
            StepFailed(g) /\ state.tag = "Playing" =>
              LET sc == maps[lmap[g]].scores
              IN /\ state'.tag = "Finished"
                 /\ Cardinality(DOMAIN state'.scores) = Cardinality(DOMAIN sc)
                 /\ \A id \in DOMAIN sc :
                      \E a \in DOMAIN state.addrs :
                        /\ state.addrs[a].id = id
                        /\ a \in DOMAIN state'.scores
                        /\ state'.scores[a] =
                             [name |-> state.addrs[a].name, score |-> sc[id]]]_vars
    /\ [](state.tag = "Playing" =>
            \A a, b \in DOMAIN state.addrs :
                a # b => state.addrs[a].id # state.addrs[b].id)

\* C13: when the step of a loop fails and the room has not been reset, the room
\* becomes Finished and, with that done, every session the last tick left is sent
\* "done", once; after that the sessions are sent nothing more, the loop takes no
\* step and nothing is appended to the history.
C13_DoneOnceAfterFinished ==
    /\ [][\A g \in Games :
            /\ StepFailed(g) =>
                  /\ pc'[g] = "done"
                  /\ state'.tag = "Finished"
                  /\ DOMAIN sockets'[g] = DOMAIN sockets[g]
                  /\ \A id \in DOMAIN sockets[g] :
                        sockets[g][id] # "done" /\ sockets'[g][id] = "done"
            /\ pc[g] = "done" =>
                  /\ pc'[g] = "done"
                  /\ sockets'[g] = sockets[g]
                  /\ history' = history]_vars
    /\ [](\A g \in Games :
            (\E id \in DOMAIN sockets[g] : sockets[g][id] = "done") =>
                pc[g] = "done" /\ state.tag = "Finished")

\* a game of two has ended by itself: the session that was left has its "done",
\* the one that was ditched on the way has none
C13_Witness ==
    \E g \in Games :
      /\ pc[g] = "done"
      /\ state.tag = "Finished"
      /\ Cardinality(DOMAIN state.scores) = 2
      /\ \E id \in Ids : sockets[g] = [i \in {id} |-> "done"]

\* C14, as claimed: once reset has fired the breaker of a game, the loop of that
\* game takes no step: it appends nothing to the history and does not touch the
\* state of the room.
C14_CancelledLoopStops ==
    [][\A g \in Games : breaker[g] = "sent" => ~ServerStep(g)]_vars

\* C15, as claimed: after a successful step the last entry of the history is the
\* Map the step gave, the current Map of the game (the tiles and the scores, which
\* are what the history shows).
C15_HistoryHoldsResult ==
    \A g \in Games :
        /\ pc[g] = "top" /\ history # <<>>
        /\ state.tag = "Playing" /\ state.map = g
        => /\ history[Len(history)].tiles = maps[g].tiles
           /\ history[Len(history)].scores = maps[g].scores

\* C15, amended: each invocation of the step appends to the history the Map it
\* was invoked on, as the requests and faults of the tick left it: on success the
\* Map that the result replaced, and the result becomes the current Map; on
\* failure the final Map, which the failed step has not changed.
C15_HistoryHoldsSteppedMap ==
    [][\A g \in Games :
          /\ pc[g] = "collect" /\ pc'[g] = "top" =>
                /\ history' = Append(history, maps[lmap[g]])
                /\ [ok |-> TRUE, map |-> maps'[lmap[g]]] \in Map_step(maps[lmap[g]])
          /\ StepFailed(g) =>
                /\ history' = Append(history, maps[lmap[g]])
                /\ \A r \in Map_step(maps[lmap[g]]) : ~r.ok]_vars

\* two steps have succeeded: the last entry of the history is not the current Map
\* but the Map that the second step turned into the current one
C15_Witness ==
    \E g \in Games :
      /\ pc[g] = "top" /\ Len(history) = 2
      /\ state.tag = "Playing" /\ state.map = g
      /\ history[2].tiles # maps[g].tiles
      /\ [ok |-> TRUE, map |-> maps[g]] \in Map_step(history[2])

\* the loop of game g has taken a step that succeeded
StepDone(g) == pc[g] = "collect" /\ pc'[g] = "top"

\* the cell one step along the heading, the edges joined to the opposite edges
Wrapped(snake, dims) ==
    LET x == snake.head[1]
        y == snake.head[2]
    IN CASE snake.dir = "East" ->
              IF x = dims.width - 1 THEN <<0, y>> ELSE <<x + 1, y>>
         [] snake.dir = "West" ->
              IF x = 0 THEN <<dims.width - 1, y>> ELSE <<x - 1, y>>
         [] snake.dir = "North" ->
              IF y = dims.height - 1 THEN <<x, 0>> ELSE <<x, y + 1>>
         [] snake.dir = "South" ->
              IF y = 0 THEN <<x, dims.height - 1>> ELSE <<x, y - 1>>

\* C16: the cell a snake heads for is the next one along its heading, and from
\* the last column heading East it is column 0 of the same row, from column 0
\* heading West the last column, from the last row heading North row 0 of the
\* same column and from row 0 heading South the last row; the head of every
\* snake that a step leaves in the live-snake table is on that cell.
C16_ToroidalWraparound ==
    /\ [](\A g \in Games : maps[g] # NoMap =>
            \A id \in DOMAIN maps[g].snakes :
                next_head_pos(maps[g].snakes[id], maps[g].dims)
                    = Wrapped(maps[g].snakes[id], maps[g].dims))
    /\ [][\A g \in Games : StepDone(g) =>
            \A id \in DOMAIN maps'[lmap[g]].snakes :
                /\ id \in DOMAIN maps[lmap[g]].snakes
                /\ maps'[lmap[g]].snakes[id].head
                      = Wrapped(maps[lmap[g]].snakes[id], maps[lmap[g]].dims)]_vars

\* on the grid of width 3 a snake heading East has gone from the last column to
\* column 0
C16_Witness ==
    \E g \in Games :
      /\ maps[g] # NoMap /\ maps[g].dims.width = 3
      /\ \E id \in DOMAIN maps[g].snakes :
            LET snake == maps[g].snakes[id]
            IN /\ snake.dir = "East"
               /\ snake.body # <<>>
               /\ snake.body[Len(snake.body)] = <<2, 0>>
               /\ snake.head = <<0, 0>>

\* the loop of game g takes the step of its tick, with whatever result
Stepping(g) == pc[g] = "collect" /\ pc'[g] \in {"top", "done"}

\* the snake is in the live-snake table after the step that is being taken
Survives(g, id) == pc'[g] = "top" /\ id \in DOMAIN maps'[lmap[g]].snakes

\* C17, as claimed: a snake with a body of 2 cells or more that heads for one of
\* its own body cells, the tail tip included, is not in the live-snake table
\* after the step.
C17_SelfCollisionAnyBodyCell ==
    [][\A g \in Games : Stepping(g) =>
          \A id \in DOMAIN maps[lmap[g]].snakes :
              LET snake == maps[lmap[g]].snakes[id]
                  next == next_head_pos(snake, maps[lmap[g]].dims)
              IN Len(snake.body) >= 2
                 /\ (\E k \in 1..Len(snake.body) : snake.body[k] = next)
                 => ~Survives(g, id)]_vars

\* C17, amended: a snake with a body of 2 cells or more that heads for one of
\* its own body cells other than the tail tip is not in the live-snake table
\* after the step; one that heads for its tail tip, which the move vacates, stays
\* in the table with its head on that cell, unless another snake heads for the
\* same cell.
C17_SelfCollisionButTailTip ==
    [][\A g \in Games : Stepping(g) =>
          \A id \in DOMAIN maps[lmap[g]].snakes :
              LET map == maps[lmap[g]]
                  snake == map.snakes[id]
                  next == next_head_pos(snake, map.dims)
              IN Len(snake.body) >= 2 =>
                   /\ (\E k \in 2..Len(snake.body) : snake.body[k] = next)
                        => ~Survives(g, id)
                   /\ /\ snake.body[1] = next
                      /\ \A k \in 2..Len(snake.body) : snake.body[k] # next
                      /\ \A oid \in DOMAIN map.snakes \ {id} :
                            next_head_pos(map.snakes[oid], map.dims) # next
                      => /\ Survives(g, id)
                         /\ maps'[lmap[g]].snakes[id].head = snake.body[1]]_vars

\* the Map that was stepped last had a snake with a body of 2 cells heading for
\* its tail tip, and the snake is in the live-snake table with its head there
C17_Witness ==
    \E g \in Games :
      /\ pc[g] = "top" /\ Len(history) = 1 /\ maps[g] # NoMap
      /\ \E id \in DOMAIN history[1].snakes \cap DOMAIN maps[g].snakes :
            LET snake == history[1].snakes[id]
            IN /\ Len(snake.body) >= 2
               /\ next_head_pos(snake, history[1].dims) = snake.body[1]
               /\ maps[g].snakes[id].head = snake.body[1]
               /\ [ok |-> TRUE, map |-> maps[g]] \in Map_step(history[1])

\* C18: two snakes of the live-snake table that head for the same cell, which is
\* not a Wall, are both out of the table after the step.
C18_MutualHeadCollision ==
    [][\A g \in Games : Stepping(g) =>
          LET map == maps[lmap[g]]
          IN \A a, b \in DOMAIN map.snakes :
                /\ a # b
                /\ next_head_pos(map.snakes[a], map.dims)
                      = next_head_pos(map.snakes[b], map.dims)
                /\ map.tiles[to_index(map, next_head_pos(map.snakes[a], map.dims))] # Wall
                => ~Survives(g, a) /\ ~Survives(g, b)]_vars

\* the Map that was stepped last had two snakes of different lengths heading for
\* the same cell: the step failed and the game is over
C18_Witness ==
    \E g \in Games :
      /\ pc[g] = "done" /\ state.tag = "Finished" /\ Len(history) = 1
      /\ \E a, b \in DOMAIN history[1].snakes :
            /\ a # b
            /\ Len(history[1].snakes[a].body) # Len(history[1].snakes[b].body)
            /\ next_head_pos(history[1].snakes[a], history[1].dims)
                  = next_head_pos(history[1].snakes[b], history[1].dims)
            /\ \A r \in Map_step(history[1]) : ~r.ok

\* the score the table shows for snake id after the step that is being taken: the
\* table of the new Map, or the frozen table of the Finished room
ScoreAfter(g, id) ==
    IF pc'[g] = "top" THEN maps'[lmap[g]].scores[id]
    ELSE LET a == CHOOSE b \in DOMAIN state.addrs : state.addrs[b].id = id
         IN state'.scores[a].score

Count(tls, tile) == Cardinality({i \in DOMAIN tls : tls[i] = tile})

\* C19, as claimed: a snake that heads for the cell of the Doodah has after the
\* step a score that is 1 higher and a body that is its old body with its old
\* head appended; after such a step the grid has one Doodah, or none and no Blank
\* cell either.
C19_Growth ==
    [][\A g \in Games : Stepping(g) =>
          LET map == maps[lmap[g]]
          IN \A id \in DOMAIN map.snakes :
                map.tiles[to_index(map, next_head_pos(map.snakes[id], map.dims))] = Doodah
                => /\ ScoreAfter(g, id) = map.scores[id] + 1
                   /\ pc'[g] = "top" =>
                         /\ Survives(g, id)
                         /\ maps'[lmap[g]].snakes[id].body
                               = Append(map.snakes[id].body, map.snakes[id].head)
                         /\ \/ Count(maps'[lmap[g]].tiles, Doodah) = 1
                            \/ /\ Count(maps'[lmap[g]].tiles, Doodah) = 0
                               /\ Count(maps'[lmap[g]].tiles, Blank) = 0]_vars

\* no snake of the Map heads for the cell of the Doodah
NoDoodahTarget(map) ==
    \A id \in DOMAIN map.snakes :
        map.tiles[to_index(map, next_head_pos(map.snakes[id], map.dims))] # Doodah

\* C20: a Map of a running game in which no snake heads for the Doodah has one
\* result of step only, whatever the order in which its snakes are iterated:
\* any two results (a new Map with its tiles, snakes and scores, or a table of
\* scores) are equal.
C20_StepDeterministic ==
    \A g \in Games :
        maps[g] # NoMap /\ NoDoodahTarget(maps[g])
        => \A r1, r2 \in Map_step(maps[g]) : r1 = r2

\* a Map with two snakes, one of them with a body, and none heading for the
\* Doodah was stepped, both snakes are still there, and the Map of the game is
\* the result of that step
C20_Witness ==
    \E g \in Games :
      /\ pc[g] = "top" /\ Len(history) = 1 /\ maps[g] # NoMap
      /\ Cardinality(DOMAIN history[1].snakes) = 2
      /\ \E id \in DOMAIN history[1].snakes : history[1].snakes[id].body # <<>>
      /\ NoDoodahTarget(history[1])
      /\ Cardinality(DOMAIN maps[g].snakes) = 2
      /\ [ok |-> TRUE, map |-> maps[g]] \in Map_step(history[1])

\* the tile on the cell the snake heads for
Target(map, id) == map.tiles[to_index(map, next_head_pos(map.snakes[id], map.dims))]

\* move resolution removes the snake: it heads for a Wall
Walled(map, id) == Target(map, id) = Wall

\* the snake as move resolution leaves it: grown on the Doodah, stepped otherwise
Moved(map, id) ==
    IF Target(map, id) = Doodah THEN grow(map.snakes[id], map.dims)
    ELSE Snake_step(map.snakes[id], map.dims)

\* the cells a snake lies on
Cells(snake) == {snake.head} \cup {snake.body[i] : i \in 1..Len(snake.body)}

\* the moved head of the snake is on a cell of its own moved body, or on a cell of
\* another snake that move resolution left, as that snake lies after its move
Hit(map, id) ==
    \/ \E i \in 1..Len(Moved(map, id).body) :
          Moved(map, id).body[i] = Moved(map, id).head
    \/ \E oid \in DOMAIN map.snakes \ {id} :
          /\ ~Walled(map, oid)
          /\ Moved(map, id).head \in Cells(Moved(map, oid))

\* C21: the step of a tick fails exactly when every snake of the Map heads for a
\* Wall or is hit in the collision pass; the room is then Finished with the
\* score table the Map had before the step, an entry for every snake of the
\* game, and a single snake that walked into a Wall is in that table with the
\* length of its body.
C21_StepFailsWhenNoSnakeLeft ==
    [][\A g \in Games : Stepping(g) =>
          LET map == maps[lmap[g]]
          IN /\ pc'[g] = "done" <=>
                    \A id \in DOMAIN map.snakes : Walled(map, id) \/ Hit(map, id)
             /\ pc'[g] = "done" =>
                  /\ state'.tag = "Finished"
                  /\ \A id \in DOMAIN map.scores :
                        \E a \in DOMAIN state.addrs :
                            /\ state.addrs[a].id = id
                            /\ a \in DOMAIN state'.scores
                            /\ state'.scores[a].score = map.scores[id]
                  /\ \A id \in DOMAIN map.snakes :
                        DOMAIN map.snakes = {id} /\ Walled(map, id)
                        => ScoreAfter(g, id) = Len(map.snakes[id].body)
             /\ \A a \in DOMAIN state.addrs : state.addrs[a].id \in DOMAIN map.scores]_vars

\* a game of two snakes is over: the Map stepped last had one snake left, with a
\* body, that walked into a Wall
C21_Witness ==
    \E g \in Games :
      /\ pc[g] = "done" /\ state.tag = "Finished" /\ Len(history) = 1
      /\ Cardinality(DOMAIN history[1].scores) = 2
      /\ \E id \in DOMAIN history[1].snakes :
            /\ DOMAIN history[1].snakes = {id}
            /\ history[1].snakes[id].body # <<>>
            /\ Walled(history[1], id)
            /\ \E a \in DOMAIN state.scores :
                  state.scores[a].score = Len(history[1].snakes[id].body)

\* C22, as claimed: a snake that heads for the Doodah and is removed by the
\* collision pass of the same step is shown, in the score table after the step
\* or in the table of the failure, with its score before the step plus 1.
C22_GrowthCountedAtDeath ==
    [][\A g \in Games : Stepping(g) =>
          LET map == maps[lmap[g]]
          IN \A id \in DOMAIN map.snakes :
                Target(map, id) = Doodah /\ Hit(map, id)
                => ScoreAfter(g, id) = map.scores[id] + 1]_vars

\* C23: the Map of a running game, whatever steps, turns and deletions of snakes
\* it has been through, and every Map of the history have at most one Doodah.
C23_AtMostOneDoodah ==
    /\ \A g \in Games : maps[g] # NoMap => Count(maps[g].tiles, Doodah) <= 1
    /\ \A i \in 1..Len(history) : Count(history[i].tiles, Doodah) <= 1

\* the snake of a session that faulted was deleted, the snake that was left has
\* then claimed the Doodah, and the Map has a new Doodah on another cell
C23_Witness ==
    \E g \in Games :
      /\ pc[g] = "top" /\ Len(history) = 1 /\ maps[g] # NoMap
      /\ \E id \in DOMAIN history[1].scores :
            id \notin DOMAIN history[1].snakes /\ id \notin DOMAIN sockets[g]
      /\ \E id \in DOMAIN history[1].snakes :
            /\ Target(history[1], id) = Doodah
            /\ id \in DOMAIN maps[g].snakes
            /\ maps[g].tiles[to_index(maps[g], maps[g].snakes[id].head)] # Doodah
      /\ Count(maps[g].tiles, Doodah) = 1

\* C24: a snake that does not head for a Wall is removed by the step iff its moved
\* head is on a cell of its own moved body or on the moved head or a moved body
\* cell of another snake that did not head for a Wall, whether that snake is
\* removed itself or not; a snake that headed for a Wall takes no part, so a
\* snake that moves onto the cell such a snake was on, and is not hit otherwise,
\* stays.
C24_SimultaneousCollisionPass ==
    [][\A g \in Games : Stepping(g) =>
          LET map == maps[lmap[g]]
          IN /\ \A id \in DOMAIN map.snakes :
                  /\ Walled(map, id) => ~Survives(g, id)
                  /\ ~Walled(map, id) => (Survives(g, id) <=> ~Hit(map, id))
             /\ \A id, oid \in DOMAIN map.snakes :
                  /\ Walled(map, oid) /\ ~Walled(map, id) /\ ~Hit(map, id)
                  /\ next_head_pos(map.snakes[id], map.dims) \in Cells(map.snakes[oid])
                  => /\ Survives(g, id)
                     /\ maps'[lmap[g]].snakes[id].head \in Cells(map.snakes[oid])]_vars

\* the Map stepped last had a snake heading for a Wall and another heading for the
\* cell of the first one's head: the second is in the live-snake table, on that
\* cell
C24_Witness ==
    \E g \in Games :
      /\ pc[g] = "top" /\ Len(history) = 1 /\ maps[g] # NoMap
      /\ \E id, oid \in DOMAIN history[1].snakes :
            /\ id # oid
            /\ Walled(history[1], oid)
            /\ next_head_pos(history[1].snakes[id], history[1].dims)
                  = history[1].snakes[oid].head
            /\ id \in DOMAIN maps[g].snakes
            /\ oid \notin DOMAIN maps[g].snakes
            /\ maps[g].snakes[id].head = history[1].snakes[oid].head

\* loop h is in a tick on the Map of game m: it has broadcast the snapshot of
\* that Map and has not yet taken the step of the tick
InTick(h, m) == pc[h] = "collect" /\ lmap[h] = m

\* C25, as claimed: between two consecutive broadcasts of the snapshot of a Map
\* there is exactly one step of that Map, and a step is taken on the Map as it
\* was broadcast: no loop broadcasts a Map that another loop has broadcast and
\* not yet stepped, and no loop steps a Map while another loop is between its
\* broadcast and its step of that Map.
C25_OneStepPerBroadcast ==
    [][\A g \in Games :
          /\ pc[g] = "top" /\ pc'[g] = "collect"
                => \A h \in Games \ {g} : ~InTick(h, lmap'[g])
          /\ pc[g] = "collect" /\ Len(history') > Len(history)
                => \A h \in Games \ {g} : ~InTick(h, lmap[g])]_vars

\* the displacement of one move along a heading, before the wrap at the edges
Vec(d) ==
    CASE d = "North" -> <<0, 1>>
      [] d = "South" -> <<0, -1>>
      [] d = "East"  -> <<1, 0>>
      [] d = "West"  -> <<-1, 0>>

\* a displacement turned by a quarter, counter-clockwise and clockwise
QuarterLeft(v) == <<0 - v[2], v[1]>>
QuarterRight(v) == <<v[2], 0 - v[1]>>

\* the exchange of session id of loop g consumes a command
Consumes(g, id) ==
    /\ id \in DOMAIN sockets[g] /\ id \in DOMAIN sockets'[g]
    /\ sockets[g][id] = "pending" /\ sockets'[g][id] = "answered"

\* C26: in a tick the exchange of a session that does not fault and whose snake
\* was alive at the start consumes one command, once; the command leaves the
\* tiles, the scores, the other snakes and the head and body of its own snake as
\* they are and no step is taken with it; Forward keeps the heading, Left turns
\* it by a quarter counter-clockwise and Right by a quarter clockwise, each
\* undoing the other; a command for a snake that is not in the live-snake table
\* changes nothing; when the step of the tick is taken every session left has
\* answered or was sent "dead".
C26_CommandTurnsOwnHeading ==
    /\ [][\A g \in Games, id \in Ids :
            /\ Consumes(g, id) =>
                  LET old == maps[lmap[g]]
                      new == maps'[lmap[g]]
                  IN /\ new.tiles = old.tiles /\ new.scores = old.scores
                     /\ new.dims = old.dims
                     /\ DOMAIN new.snakes = DOMAIN old.snakes
                     /\ \A oid \in DOMAIN old.snakes \ {id} :
                            new.snakes[oid] = old.snakes[oid]
                     /\ id \in DOMAIN old.snakes =>
                            /\ new.snakes[id].head = old.snakes[id].head
                            /\ new.snakes[id].body = old.snakes[id].body
                     /\ pc' = pc /\ history' = history /\ state' = state
                     /\ \A oid \in DOMAIN sockets[g] \ {id} :
                            oid \in DOMAIN sockets'[g] /\ sockets'[g][oid] = sockets[g][oid]
            /\ \A req \in Request :
                  /\ Consumes(g, id) /\ id \in DOMAIN maps[lmap[g]].snakes
                  /\ ClientAnswer(g, id, req)
                  =>
                      LET v == Vec(maps[lmap[g]].snakes[id].dir)
                          w == Vec(maps'[lmap[g]].snakes[id].dir)
                      IN /\ req = "Forward" => w = v
                         /\ req = "Left" => w = QuarterLeft(v)
                         /\ req = "Right" => w = QuarterRight(v)
            /\ (id \in DOMAIN sockets[g] /\ sockets[g][id] = "answered")
                  => \A req \in Request : ~ClientAnswer(g, id, req)
            /\ Stepping(g) /\ id \in DOMAIN sockets[g]
                  => sockets[g][id] \in {"answered", "dead"}]_vars
    /\ [](\A g \in Games : maps[g] # NoMap =>
            \A id \in Ids :
               /\ turn_right(turn_left(maps[g], id), id) = maps[g]
               /\ turn_left(turn_right(maps[g], id), id) = maps[g]
               /\ id \notin DOMAIN maps[g].snakes =>
                     \A req \in Request : do_client_step(maps[g], id, req) = maps[g])

\* in a tick a snake with a body has been turned to the left, from North to West:
\* its head tile still shows the heading the last step painted
C26_Witness ==
    \E g \in Games :
      /\ pc[g] = "collect" /\ maps[lmap[g]] # NoMap
      /\ \E id \in DOMAIN maps[lmap[g]].snakes :
            LET map == maps[lmap[g]]
            IN /\ id \in DOMAIN sockets[g] /\ sockets[g][id] = "answered"
               /\ map.snakes[id].body # <<>>
               /\ map.snakes[id].dir = "West"
               /\ map.tiles[to_index(map, map.snakes[id].head)] = SnakeHead(id, "North")
               /\ \E oid \in DOMAIN map.scores : oid \notin DOMAIN sockets[g]

\* the thread holds the guard of the Mutex of some Map
HoldsMap(th) == \E g \in Games : map_mutex[g] = th

\* thread th is at lock() of a Mutex whose guard thread other holds
WaitsFor(th, other) ==
    \/ Wants(th, "room") /\ room_mutex = other
    \/ Wants(th, "map") /\ map_mutex[MapOf(th)] = other

\* C27: no thread, whether the task of a game or the handler of a page query, a
\* history read, a start, a reset, a subscribe or an unsubscribe, is at lock() of
\* the Room while it holds the guard of a Map, so that a thread with both guards
\* has taken that of the Room first; and no two threads wait for a guard the
\* other holds, nor a thread for a guard of its own.
C27_RoomLockedBeforeMap ==
    \A th \in Threads :
        /\ Wants(th, "room") => ~HoldsMap(th)
        /\ \A other \in Threads : ~(WaitsFor(th, other) /\ WaitsFor(other, th))

\* the handler of a page query holds the guard of the Room and waits for that of
\* the Map, which the task of the game holds while it serializes the Map
C27_Witness ==
    \E h \in Handlers, g \in Games :
      /\ thread[h] = [sec |-> "page_map", got |-> 1]
      /\ room_mutex = h
      /\ state.tag = "Playing"
      /\ map_mutex[state.map] = Task(g)
      /\ thread[Task(g)] = [sec |-> "ser", got |-> 1]
      /\ WaitsFor(h, Task(g))

\* the Map of game m, the shared Map of the Playing room, is changed by the step
\* that is being taken
Changed(m) ==
    /\ state.tag = "Playing" /\ state.map = m
    /\ maps[m] # NoMap /\ maps'[m] # NoMap /\ maps'[m] # maps[m]

\* loop k takes the step of its tick on the Map of game m
StepOf(k, m) ==
    /\ pc[k] = "collect" /\ lmap[k] = m /\ Collected(k)
    /\ pc'[k] = "top" /\ history' # history

\* the exchange of session id of loop k, which is in a tick on the Map of game m,
\* ends: with a command or with a fault
ExchangeOf(k, id, m) ==
    /\ pc[k] = "collect" /\ pc'[k] = "collect" /\ lmap[k] = m
    /\ id \in DOMAIN sockets[k] /\ sockets[k][id] = "pending"
    /\ id \in DOMAIN sockets'[k] => sockets'[k][id] = "answered"

\* C28, as claimed: the tiles, the live-snake table and the scores of the shared
\* Map of a Playing room are changed by nothing but the step of a tick.
C28_MapChangedOnlyByStep ==
    [][\A m \in Games : Changed(m) => \E k \in Games : StepOf(k, m)]_vars

\* C28, amended: the shared Map of a Playing room is changed only by the step of
\* a tick and by the exchange of a session, which changes nothing but the
\* heading of the snake of that session or takes that snake out of the
\* live-snake table and leaves the tiles and the scores as they are; a handler
\* of a page query, a history read, a reset, a subscribe or an unsubscribe
\* changes nothing of it.
C28_MapChangedByStepOrOwnExchange ==
    [][/\ \A m \in Games : Changed(m) =>
            \/ \E k \in Games : StepOf(k, m)
            \/ \E k \in Games, id \in Ids :
                  /\ ExchangeOf(k, id, m)
                  /\ maps'[m].tiles = maps[m].tiles
                  /\ maps'[m].scores = maps[m].scores
                  /\ DOMAIN maps'[m].snakes \in
                        {DOMAIN maps[m].snakes, DOMAIN maps[m].snakes \ {id}}
                  /\ \A oid \in DOMAIN maps'[m].snakes :
                        /\ oid # id => maps'[m].snakes[oid] = maps[m].snakes[oid]
                        /\ maps'[m].snakes[oid].head = maps[m].snakes[oid].head
                        /\ maps'[m].snakes[oid].body = maps[m].snakes[oid].body
       /\ \A h \in Handlers : thread'[h] # thread[h] =>
            \A m \in Games : maps[m] # NoMap /\ maps'[m] # NoMap => maps'[m] = maps[m]]_vars

\* the room is Playing, the snake of its Map has been taken out of the live-snake
\* table by the fault of its session, its head tile and its score still there,
\* and the handler of a page query holds the guards of the Room and of the Map
C28_Witness ==
    \E h \in Handlers :
      /\ state.tag = "Playing" /\ maps[state.map] # NoMap
      /\ thread[h] = [sec |-> "page_map", got |-> 2]
      /\ \E id \in DOMAIN maps[state.map].scores :
            /\ id \notin DOMAIN maps[state.map].snakes
            /\ \E i \in DOMAIN maps[state.map].tiles :
                  maps[state.map].tiles[i].type = "SnakeHead"

\* two cells next to each other in a row or in a column, the edges of the grid
\* joined to the opposite edges
Adjacent(p, q, dims) ==
    /\ p # q
    /\ \/ /\ p[2] = q[2]
          /\ (p[1] - q[1] + dims.width) % dims.width \in {1, dims.width - 1}
       \/ /\ p[1] = q[1]
          /\ (p[2] - q[2] + dims.height) % dims.height \in {1, dims.height - 1}

\* the body is a trail: each cell next to the one after it, the last next to the head
Trail(snake, dims) ==
    /\ \A i \in 1..(Len(snake.body) - 1) :
          Adjacent(snake.body[i], snake.body[i + 1], dims)
    /\ snake.body # <<>> => Adjacent(snake.body[Len(snake.body)], snake.head, dims)

\* the body after a move: the old head behind the new one, before it the old
\* body, whole after growing and without its oldest cell otherwise
Trails(old, new) ==
    /\ new.body # <<>> => new.body[Len(new.body)] = old.head
    /\ \/ new.body = Append(old.body, old.head)
       \/ new.body = Tail(Append(old.body, old.head))

\* C29: in the Map as created and after every successful step the score of every
\* live snake is the length of its body, consecutive body cells are adjacent on
\* the torus and the last body cell is adjacent to the head; a step leaves a
\* survivor with the old head as its newest body cell behind the old body.
C29_ScoreIsBodyLengthOfTrail ==
    /\ [](\A g \in Games : maps[g] # NoMap =>
            \A id \in DOMAIN maps[g].snakes :
                /\ id \in DOMAIN maps[g].scores
                /\ maps[g].scores[id] = Len(maps[g].snakes[id].body)
                /\ Trail(maps[g].snakes[id], maps[g].dims))
    /\ [][\A g \in Games : StepDone(g) =>
            \A id \in DOMAIN maps'[lmap[g]].snakes :
                /\ id \in DOMAIN maps[lmap[g]].snakes
                /\ Trails(maps[lmap[g]].snakes[id], maps'[lmap[g]].snakes[id])]_vars

\* on the grid of width 3 a snake has eaten twice and fills the row: two body
\* cells behind the head, the older one across the edge, and a score of 2
C29_Witness ==
    \E g \in Games :
      /\ maps[g] # NoMap /\ maps[g].dims.width = 3 /\ history # <<>>
      /\ \E id \in DOMAIN maps[g].snakes :
            LET snake == maps[g].snakes[id]
            IN /\ Len(snake.body) = 2 /\ maps[g].scores[id] = 2
               /\ snake.head[1] = 1 /\ snake.body[1][1] = 2 /\ snake.body[2][1] = 0

\* the task of game g sends the session of snake id a message in this step: the
\* snapshot of a tick, or "done"
Sends(g, id) ==
    /\ Active(pc[g])
    /\ id \in DOMAIN last_msg[g] /\ id \in DOMAIN last_msg'[g]
    /\ \/ pc[g] = "top" /\ pc'[g] = "collect"
       \/ last_msg'[g][id] # last_msg[g][id]

\* the messages that can follow a message on one session
Follows(msg) ==
    CASE msg = "start"   -> {"playing", "dead", "done"}
      [] msg = "playing" -> {"playing", "dead", "done"}
      [] msg = "dead"    -> {"dead", "done"}
      [] msg = "done"    -> {}

\* C30: the messages of one session come in the order "start", then "playing"
\* any number of times, then "dead" any number of times, then "done" at most
\* once: a task starts with "start" sent to each of its sessions, every later
\* message is one that may follow the one before, so no "playing" follows a
\* "dead", and a snake that is not in the live-snake table of the game's Map
\* is not in it after any step of the game.
C30_MessageOrder ==
    [][\A g \in Games :
          /\ ~Active(pc[g]) /\ Active(pc'[g]) =>
                /\ last_msg'[g] # Empty
                /\ \A id \in DOMAIN last_msg'[g] : last_msg'[g][id] = "start"
          /\ \A id \in Ids :
                Sends(g, id) => last_msg'[g][id] \in Follows(last_msg[g][id])
          /\ maps[g] # NoMap /\ maps'[g] # NoMap =>
                DOMAIN maps'[g].snakes \subseteq DOMAIN maps[g].snakes]_vars

\* every session of the game the room is playing has faulted: the loop of the
\* game is alive and has no socket left
AllFaulted ==
    /\ state.tag = "Playing"
    /\ Active(pc[state.map])
    /\ sockets[state.map] = Empty

\* C31: once every session of a Playing room has faulted, the step of the tick
\* the loop is in or comes to next finds the live-snake table empty and fails,
\* and the room becomes Finished with no request of a session.
C31_AllFaultedFinishes ==
    /\ [][\A g \in Games :
            AllFaulted /\ g = state.map /\ Stepping(g) =>
                /\ DOMAIN maps[lmap[g]].snakes = {}
                /\ state'.tag = "Finished"]_vars
    /\ (AllFaulted ~> state.tag = "Finished")

\* the room is playing the game of loop g
OwnGame(g) == ~poisoned /\ state.tag = "Playing" /\ state.map = g

\* C32: however start, reset and a running loop interleave, a loop begins an
\* iteration and ends a step only while the room is Playing its own game: no
\* task ends in the panic at the top of the loop or in the error of
\* do_server_step, and no loop works on the Map of another game.
C32_LoopOnlyInOwnGame ==
    /\ [](\A g \in Games : pc[g] \notin {"panic", "error"} /\ lmap[g] \in {0, g})
    /\ [][\A g \in Games :
            /\ pc[g] = "top" /\ pc'[g] # "top" => OwnGame(g)
            /\ pc[g] = "collect" /\ pc'[g] \notin {"collect", "cancelled"} => OwnGame(g)]_vars

\* the tile a cell of the board must carry: the head or the body part, with its
\* index, of the one live snake that is on it
Carried(map, i) ==
    {SnakeHead(id, map.snakes[id].dir) :
        id \in {s \in DOMAIN map.snakes : to_index(map, map.snakes[s].head) = i}}
    \cup
    UNION {{SnakeBody(id, k - 1) :
              k \in {l \in 1..Len(map.snakes[id].body) :
                        to_index(map, map.snakes[id].body[l]) = i}} :
           id \in DOMAIN map.snakes}

\* the board of a Map over the template of its room: no two parts of live snakes
\* on one cell, every part on a cell that carries its tile, the Walls where the
\* template has them, and Blank or the Doodah everywhere else
Board(map, template) ==
    /\ \A id \in DOMAIN map.snakes :
          Cardinality(Cells(map.snakes[id])) = Len(map.snakes[id].body) + 1
    /\ \A id, oid \in DOMAIN map.snakes :
          id # oid => Cells(map.snakes[id]) \cap Cells(map.snakes[oid]) = {}
    /\ \A i \in DOMAIN map.tiles :
          IF Carried(map, i) # {}
          THEN /\ Carried(map, i) = {map.tiles[i]}
               /\ template[i] = Blank
          ELSE /\ map.tiles[i] \in {Wall, Doodah, Blank}
               /\ map.tiles[i] = Wall <=> template[i] = Wall

\* C33: in the Map that a start creates and in the Map that a successful step
\* leaves, the cells of the live snakes, heads and body cells, are pairwise
\* distinct, none is a Wall or the Doodah, each carries the SnakeHead or the
\* SnakeBody tile, with its index, of its snake, and every other cell is a Wall
\* of the template, the Doodah or Blank.
C33_OneContentPerCell ==
    [][\A g \in Games :
          /\ ~Active(pc[g]) /\ Active(pc'[g]) => Board(maps'[g], tiles)
          /\ StepDone(g) => Board(maps'[lmap[g]], tiles)]_vars

\* a step has left two snakes, one of them with a body cell, and the Doodah on
\* the fourth cell of the open grid
C33_Witness ==
    \E g \in Games :
      /\ maps[g] # NoMap /\ history # <<>> /\ pc[g] = "top"
      /\ \E i \in DOMAIN maps[g].tiles : maps[g].tiles[i] = Doodah
      /\ Cardinality(DOMAIN maps[g].snakes) = 2
      /\ \E id \in DOMAIN maps[g].snakes : Len(maps[g].snakes[id].body) = 1
      /\ Board(maps[g], tiles)

\* C34: the roster of the room is non-empty only while the room is Waiting: in
\* every Playing or Finished state it is empty and an unsubscribe fails for
\* every address, leaving the roster and the waiting list as they were; the
\* Map of the room exists while it is Playing, and while it is not Playing a Map
\* exists only as long as the loop of a tick still holds it.
C34_RosterOnlyWhileWaiting ==
    /\ [](state.tag \in {"Playing", "Finished"} => players = Empty)
    /\ [](state.tag = "Playing" => maps[state.map] # NoMap)
    /\ [](state.tag # "Playing" =>
            \A g \in Games : maps[g] # NoMap =>
                \E h \in Games : pc[h] = "collect" /\ lmap[h] = g)
    /\ [][\A addr \in Addrs :
            unsubscribe(addr) /\ state.tag # "Waiting" =>
                /\ ~ret'.ok
                /\ players' = players /\ waiting' = waiting]_vars

\* the game is over and an unsubscribe has just failed in the Finished room,
\* the connections of the game neither in the roster nor in the waiting list
C34_Witness ==
    /\ state.tag = "Finished" /\ state.scores # Empty
    /\ ret = Result("unsubscribe", FALSE, "address not in room")
    /\ players = Empty

\* the loop of game g calls the step of the Grid Engine in this step
Invokes(g) ==
    /\ ~poisoned
    /\ pc[g] = "collect" /\ pc'[g] \notin {"collect", "cancelled"}

\* C35: the history is never shortened: a step of the model either leaves it as
\* it is or appends one Map behind the Maps it holds, and it appends exactly when
\* a loop calls the step of the Grid Engine; reset, start, subscribe and
\* unsubscribe leave it unchanged, so the Maps of a game stay in the history, in
\* order, in front of those of the games started after it.
C35_HistoryOnlyGrows ==
    [][/\ \/ history' = history
          \/ /\ Len(history') = Len(history) + 1
             /\ SubSeq(history', 1, Len(history)) = history
       /\ history' # history <=> \E g \in Games : Invokes(g)
       /\ ret'.op \in {"reset_room", "start_room", "subscribe", "unsubscribe"} =>
             history' = history]_vars

\* a game has ended, the room was reset and started again, and the second game
\* has ended: its Map is in the history behind the Map of the first game
C35_Witness ==
    /\ Len(history) = 2
    /\ state.tag = "Finished"
    /\ \A g \in Games : ~Active(pc[g])
    /\ history[2].scores = [id \in DOMAIN history[2].scores |-> 0]

\* two snakes of the Map on different cells, each heading for the cell of the
\* other's head
HeadOn(map, id, oid) ==
    /\ id # oid
    /\ map.snakes[id].head # map.snakes[oid].head
    /\ next_head_pos(map.snakes[id], map.dims) = map.snakes[oid].head
    /\ next_head_pos(map.snakes[oid], map.dims) = map.snakes[id].head

\* C36: when the two live snakes of a Map are on adjacent cells and each heads
\* for the other's cell, then with both bodies empty the step succeeds, both
\* are in the live-snake table after it, each with its head where the other's
\* was and with an empty body; with a body of one cell or more on both, neither
\* is in the live-snake table after the step.
C36_HeadOnSwapOrBothRemoved ==
    [][\A g \in Games : Stepping(g) =>
          LET map == maps[lmap[g]]
          IN \A id, oid \in DOMAIN map.snakes : HeadOn(map, id, oid) =>
                /\ map.snakes[id].body = <<>> /\ map.snakes[oid].body = <<>> =>
                      /\ Survives(g, id) /\ Survives(g, oid)
                      /\ maps'[lmap[g]].snakes[id].head = map.snakes[oid].head
                      /\ maps'[lmap[g]].snakes[oid].head = map.snakes[id].head
                      /\ maps'[lmap[g]].snakes[id].body = <<>>
                /\ map.snakes[id].body # <<>> /\ map.snakes[oid].body # <<>> =>
                      ~Survives(g, id) /\ ~Survives(g, oid)]_vars

\* the step of a tick has been taken on a Map with two snakes without a body
\* heading for each other's cell, and the Map it left has them on each other's
\* cell
C36_Witness ==
    \E g \in Games :
      /\ maps[g] # NoMap /\ pc[g] = "top" /\ Len(history) = 1
      /\ LET map == history[1]
         IN \E id, oid \in DOMAIN map.snakes :
              /\ HeadOn(map, id, oid)
              /\ map.snakes[id].body = <<>> /\ map.snakes[oid].body = <<>>
              /\ id \in DOMAIN maps[g].snakes /\ oid \in DOMAIN maps[g].snakes
              /\ maps[g].snakes[id].head = map.snakes[oid].head
              /\ maps[g].snakes[oid].head = map.snakes[id].head

\* C37: the Map a start creates gives every snake an empty body, the score 0, a
\* Blank cell of the template that no other snake has, and a heading that is
\* North, West or South, never East; the snakes are sessions of the roster, as
\* many as the roster has sessions or, if that is more than the template has
\* Blank cells, as many as it has Blank cells, and the ids left over have no
\* snake and no entry in the score table.
C37_MapCreation ==
    ret.op = "start_room" /\ ret.ok =>
        LET map == maps[state.map]
            roster == {state.addrs[a].id : a \in DOMAIN state.addrs}
            blanks == Cardinality(BlankIndices(tiles))
        IN /\ \A id \in DOMAIN map.snakes :
                 /\ map.snakes[id].body = <<>>
                 /\ map.scores[id] = 0
                 /\ tiles[to_index(map, map.snakes[id].head)] = Blank
                 /\ map.snakes[id].dir \in {"North", "West", "South"}
                 /\ \A oid \in DOMAIN map.snakes :
                       oid # id => map.snakes[oid].head # map.snakes[id].head
           /\ DOMAIN map.snakes \subseteq roster
           /\ DOMAIN map.scores = DOMAIN map.snakes
           /\ Cardinality(DOMAIN map.snakes)
                 = IF Cardinality(roster) <= blanks THEN Cardinality(roster) ELSE blanks

\* a start with two sessions in the room of one Blank tile: one snake, one entry
\* in the score table
C37_Witness ==
    /\ ret.op = "start_room" /\ ret.ok
    /\ Cardinality(DOMAIN state.addrs) = 2
    /\ Cardinality(BlankIndices(tiles)) = 1
    /\ Cardinality(DOMAIN maps[state.map].snakes) = 1
    /\ Cardinality(DOMAIN maps[state.map].scores) = 1

====
